---------------------------- MODULE Spec2Model ----------------------------
(***************************************************************************)
(* mapbuddy: HTTP endpoints that look a feature up in ArcGIS REST layers   *)
(* by asset ID and convert it.  The repository holds several generations   *)
(* of each endpoint; every handler modelled here is named after the place  *)
(* it lives in.                                                            *)
(*                                                                         *)
(* Text is modelled as a sequence of one-character strings, so that        *)
(* trimming, upper-casing, quoting and URL encoding are computed and not   *)
(* assumed.  A request is a lookup body { assetId, dataset?, format? }.    *)
(* One request is followed from its arrival to its response; every await   *)
(* of an upstream call is one step.                                        *)
(***************************************************************************)
EXTENDS Integers, Sequences, FiniteSets, TLC

VARIABLES
    endpoint,      \* the handler that serves the request
    req,           \* the request body: [assetId, dataset]
    nest,          \* the probes the handler's loops run through, in order
    upstream,      \* what each upstream layer holds for the requested ID
    pc,            \* position of the handler
    cursor,        \* index of the next probe of the handler's loop nest
    probes,        \* the upstream queries issued so far, with their outcome
    fc,            \* the FeatureCollection the handler resolved, or NoFC
    status,        \* HTTP status of the response, 0 while none is sent
    error,         \* the error text of a JSON error body, "" if none
    encoderCalls,  \* number of calls of the vector encoder (mapshaper)
    id,            \* the asset ID given to a where-clause builder
    builder,       \* the where-clause builder applied, "" before
    sent,          \* the value of the where parameter as put into the URL
    vals,          \* the ID variants tmdlVariants returned, << >> before
    forKey,        \* the dataset key whose idFields the builder is given
    native,        \* the Esri geometry given to the geometry translator
    geom,          \* the GeoJSON geometry the translator returned
    registry,      \* the dataset entries the alias map is built from
    aliases,       \* the alias map as constructed, << >> before
    lookup,        \* the dataset string of a bulk row
    resolved,      \* what normalizeDs and ds made of the string
    variant,       \* the bulk handler that serves the request, "" if none
    phase,         \* where the bulk handler is
    body,          \* the body of the bulk request: items, defaultDataset, format
    fate,          \* what upstream and the encoder do with each item
    stage,         \* how far the work on each item has come
    taken,         \* the number of items taken up (i of the source)
    active,        \* runPool: the workers counted as running
    ret,           \* runPool: the results, by index
    invoked,       \* runPool: the invocations of the worker, by index
    promise,       \* runPool: the state of the promise it returned
    hits,          \* the items a feature was found for, in order
    zip,           \* the entries of the archive: name and item
    skipped,       \* the rows of misses / skipped
    response       \* the response to the bulk request, status 0 before

vars == << endpoint, req, nest, upstream, pc, cursor, probes, fc, status, error,
           encoderCalls, id, builder, sent, vals, forKey, native, geom, registry, aliases,
           lookup, resolved, variant, phase, body, fate, stage, taken, active, ret,
           invoked, promise, hits, zip, skipped, response >>

lookupVars == << endpoint, req, nest, upstream, pc, cursor, probes, fc, status,
                 error, encoderCalls >>
\* the variables of the functions exercised on their own
variantVars == << vals, forKey >>
geometryVars == << native, geom >>
registryVars == << registry, aliases, lookup, resolved >>
bulkVars == << variant, phase, body, fate, stage, taken, active, ret, invoked, promise, hits,
               zip, skipped, response >>
whereVars == << id, builder, sent, variantVars, geometryVars, registryVars,
                bulkVars >>

\* no bulk request is being served
bulkIdle ==
    /\ variant = ""
    /\ phase = ""
    /\ body = << >>
    /\ fate = << >>
    /\ stage = << >>
    /\ taken = 0
    /\ active = 0
    /\ ret = << >>
    /\ invoked = << >>
    /\ promise = "none"
    /\ hits = << >>
    /\ zip = {}
    /\ skipped = << >>
    /\ response = [status |-> 0, error |-> "", type |-> ""]

----------------------------------------------------------------------------
(* Bounds of the model *)

\* at most this many layers hold a feature for the requested ID
MaxHits == 2
\* at most this many layers are out of reach while the request is served
MaxDown == 1
\* longest asset ID given to the where-clause builders
MaxIdLen == 3
\* longest raw asset ID given to tmdlVariants and buildWhereExact
MaxRawLen == 5
\* the rings of a polygon, the paths of a polyline
MaxParts == 2
\* the items given to runPool
MaxItems == 6
\* the basemap tiles one map is made of
MaxTiles == 2

----------------------------------------------------------------------------
(* Text *)

Digits == {"0", "1", "2", "3", "4", "5", "6", "7", "8", "9"}
Lower == {"a", "b", "d", "f", "l", "o", "p", "r", "s", "t", "u", "w", "x"}
Upper == {"A", "B", "D", "F", "L", "O", "P", "R", "S", "T", "U", "W", "X"}

\* String.prototype.toUpperCase, one character
upperChar(c) ==
    CASE c = "a" -> "A" [] c = "b" -> "B" [] c = "d" -> "D" [] c = "f" -> "F"
      [] c = "l" -> "L" [] c = "o" -> "O" [] c = "p" -> "P" [] c = "r" -> "R"
      [] c = "s" -> "S" [] c = "t" -> "T" [] c = "u" -> "U" [] c = "w" -> "W"
      [] c = "x" -> "X" [] OTHER -> c

toUpperCase(s) == [i \in 1..Len(s) |-> upperChar(s[i])]

RECURSIVE trimStart(_)
trimStart(s) == IF s # << >> /\ Head(s) = " " THEN trimStart(Tail(s)) ELSE s

RECURSIVE trimEnd(_)
trimEnd(s) ==
    IF s # << >> /\ s[Len(s)] = " " THEN trimEnd(SubSeq(s, 1, Len(s) - 1)) ELSE s

\* String.prototype.trim
trim(s) == trimEnd(trimStart(s))

allDigits(s) == \A i \in 1..Len(s) : s[i] \in Digits

startsWith(s, p) == Len(s) >= Len(p) /\ SubSeq(s, 1, Len(p)) = p


\* let fc = null
NoFC == [key |-> "", layer |-> "", pass |-> "", features |-> {}, geometry |-> "",
         properties |-> << >>]

----------------------------------------------------------------------------
(* Dataset registry *)

TMDL_ANY == << "mdsha_tmdl_structures", "mdsha_tmdl_retrofits",
               "mdsha_tmdl_tree_plantings", "mdsha_tmdl_pavement_removals",
               "mdsha_tmdl_stream_restorations",
               "mdsha_tmdl_outfall_stabilizations" >>

\* the inner layers of the unified Montgomery County dataset, in order
montgomery_layers == << "DEP_Stormwater/2", "BLDG_PS/0", "communities_w_muni/0",
                        "municipalities/0", "MCDOT_Tree_Inventory_FY22/0" >>

Range(f) == {f[i] : i \in DOMAIN f}

\* the keys every copy of the registry has
DATASETS == {"fairfax_bmps", "mdsha_landscape"} \cup Range(TMDL_ANY)

\* the keys of the registry of one handler
DATASETS_of(ep) ==
    CASE ep = "convert_montgomery" -> DATASETS \cup {"montgomery_county"}
      [] ep = "convert_any"        -> DATASETS \cup {"mdsha_tmdl_any"}
      [] ep = "locate"             -> DATASETS \cup {"leesburg_bmps"}
      [] ep = "locate_meta"        -> (DATASETS \ {"mdsha_landscape"})
                                          \cup {"mdsha_tmdl_any"}
      [] ep \in {"convert_single", "convert_stdout", "locate_single"}
                                   -> {"fairfax_bmps", "mdsha_landscape"}
      [] OTHER                     -> DATASETS

\* the twelve names every object inherits from Object.prototype:
\* DATASETS[key] is a function or an object for them, without base, idFields
\* or layers
ObjectPrototype ==
    {"constructor", "toString", "__proto__", "valueOf", "toLocaleString",
     "hasOwnProperty", "isPrototypeOf", "propertyIsEnumerable",
     "__defineGetter__", "__defineSetter__", "__lookupGetter__",
     "__lookupSetter__"}

\* DATASETS[key] is truthy: if (!ds) does not turn the key away
truthy(ep, key) == key \in DATASETS_of(ep) \cup ObjectPrototype

\* idFields of the registry whose handlers query one field at a time
idFields(key) ==
    CASE key = "fairfax_bmps"    -> << "FACILITY_ID" >>
      [] key = "mdsha_landscape" -> << "LOD_ID" >>
      [] key \in {"mdsha_tmdl_structures", "mdsha_tmdl_retrofits"}
                                 -> << "SWM_FAC_NO", "NAME", "PROJECT_ID" >>
      [] OTHER -> << "STRU_ID", "NAME", "PROJECT_ID", "ASSET_ID" >>

----------------------------------------------------------------------------
(* Auto-detection of the dataset from the shape of the ID *)

TmdlSuffixes == { <<"U","T">>, <<"T","R">>, <<"S","R">>, <<"O","F">>, <<"P","R">> }

\* s matches /^(\d+)\s*-?\s*$/ : digits, then blanks, at most one hyphen, blanks
numberThenSeparator(s) ==
    LET a == trimEnd(s)
        b == IF a # << >> /\ a[Len(a)] = "-"
             THEN trimEnd(SubSeq(a, 1, Len(a) - 1)) ELSE a
    IN  b # << >> /\ allDigits(b)

\* /^(\d+)\s*-?\s*(UT|TR|SR|OF|PR)$/ on the trimmed, upper-cased ID
isTmdlLike(assetId) ==
    LET s == toUpperCase(trim(assetId))
    IN  /\ Len(s) >= 3
        /\ SubSeq(s, Len(s) - 1, Len(s)) \in TmdlSuffixes
        /\ numberThenSeparator(SubSeq(s, 1, Len(s) - 2))

\* guessDatasetFromId with a default dataset for an ID of no known shape
guessDatasetFromId_default(assetId) ==
    IF assetId = << >> THEN ""
    ELSE LET s == toUpperCase(trim(assetId))
         IN  IF startsWith(s, <<"L","O","D","_">>) THEN "mdsha_landscape"
             ELSE IF isTmdlLike(s) THEN "mdsha_tmdl_any"
             ELSE "fairfax_bmps"

\* the dataset key guessed, "" for null
guessDatasetFromId(assetId) ==
    IF assetId = << >> THEN ""
    ELSE LET s == toUpperCase(trim(assetId))
         IN  IF startsWith(s, <<"W","P">>) /\ Len(s) >= 5
                  /\ allDigits(SubSeq(s, 3, Len(s)))
             THEN "fairfax_bmps"
             ELSE IF startsWith(s, <<"L","O","D","_">>) THEN "mdsha_landscape"
             ELSE IF isTmdlLike(s) THEN "mdsha_tmdl_any"
             ELSE ""

\* /\d+\s+\S+/ : somewhere a digit, at least one blank, then a non-blank
looksLikeAddress(assetId) ==
    LET t == trim(assetId)
    IN  \E i \in 1..Len(t) : \E j \in (i + 1)..Len(t) :
           /\ t[i] \in Digits
           /\ j > i + 1
           /\ \A k \in (i + 1)..(j - 1) : t[k] = " "
           /\ t[j] # " "

----------------------------------------------------------------------------
(* The requests followed and the upstream they meet *)

Endpoints == {"convert_passes", "convert_montgomery", "convert_fields",
              "convert_fields2", "convert_url", "convert_any", "convert_or",
              "convert_geojson", "convert_single", "convert_stdout",
              "locate", "locate_geojson", "locate_single", "locate_exact",
              "locate_meta", "mapPdf_tiles", "mapPdf_static"}

\* the handlers of /convert
Converting == {"convert_passes", "convert_montgomery", "convert_fields",
               "convert_fields2", "convert_url", "convert_any", "convert_or",
               "convert_geojson", "convert_single", "convert_stdout"}

\* handlers that take the FeatureCollection from the body (geojson) or from
\* a URL the body names (geojsonUrl) instead of looking the asset up
TakingGeojson == {"convert_fields", "convert_or", "convert_geojson",
                  "locate_geojson"}

\* handlers that issue one query per id field of a layer
PerField == {"convert_fields", "convert_fields2"}

AssetIds == { << >>,
              <<"W","P","1","2","3">>,
              <<"w","p","1","2">>,
              <<"L","O","D","_","1">>,
              <<"1","2"," ","u","t">>,
              <<"1","2","-","X","X">>,
              <<"1","2","A","B">>,
              <<" ","X","1">> }

DatasetInputs == {"fairfax_bmps", "mdsha_tmdl_any", "mdsha_tmdl_retrofits",
                  "montgomery_county", "leesburg_bmps", "no_such_dataset",
                  "constructor"}

\* what the body carries as geojson or geojsonUrl: nothing, a
\* FeatureCollection, JSON that is none, a string JSON.parse rejects, or the
\* URL of a document
GeojsonInputs == {"", "collection", "other", "malformed", "url"}

\* bodies without a dataset, bodies that name one, and bodies that bring
\* their GeoJSON along
Requests ==
    {[assetId |-> a, dataset |-> "", geojson |-> ""] : a \in AssetIds}
    \cup {[assetId |-> a, dataset |-> d, geojson |-> ""] :
             a \in { << >>, <<"1","2"," ","u","t">> },
             d \in DatasetInputs}
    \cup {[assetId |-> a, dataset |-> d, geojson |-> g] :
             a \in { << >>, <<"1","2","A","B">> },
             d \in {"", "fairfax_bmps"},
             g \in GeojsonInputs \ {""}}

\* the layer buildQueryUrl of part_001 makes of a name layerDefs inherits:
\* `${tmdlBase}/${def.layer}/query` with def.layer undefined
undefinedLayer == "MapServer/undefined"

\* the document a geojsonUrl names, and the basemap server of the map PDF
geojsonUrl == "geojsonUrl"
basemap == "basemap"

\* the servers that hold no feature of a layer for the ID
NoLayers == {undefinedLayer, basemap}

Layers == DATASETS \cup Range(montgomery_layers)
              \cup {"leesburg_bmps", undefinedLayer, geojsonUrl, basemap}

\* what a layer may hold for the requested ID: a feature whose field-th id
\* field equals the ID ("exact"), or a feature one id field of which only
\* contains the ID ("fuzzy")
Contents == {[kind |-> "exact", field |-> f] : f \in 1..4}
            \cup {[kind |-> "fuzzy", field |-> 1]}
            \cup {[kind |-> "both", field |-> 1]}

\* handlers that keep every feature a LIKE predicate returned; to the others,
\* which take the first feature, a layer holding both is one holding the
\* exact match
KeepingAll == {"convert_or", "convert_geojson", "locate_geojson"}

\* how a layer is out of reach: it answers a status other than 2xx, or not
\* within the timeout of the GET; or it serves f=pjson and f=json but fails
\* a query with f=geojson; or its metadata lists none of the candidate id
\* fields
Outages == {"status", "timeout", "noGeojson", "noIdField"}

\* handlers whose answer tells a timeout from any other failed GET; to the
\* others a layer out of reach is one that answers an error status
TellingTimeouts == {"convert_url", "mapPdf_tiles"}

\* handlers that read the metadata of a layer before they query it, and
\* fall back to f=json when the query with f=geojson failed
TryingLayers == {"locate_meta"}

\* handlers that ask for f=json and translate the Esri geometry themselves;
\* one layer at most returns a feature without usable geometry to them
Translating == {"convert_passes", "convert_montgomery", "locate"}

\* handlers that need the geometry of features[0] of a GeoJSON answer
NeedingGeometry == {"locate_single", "locate_exact", "mapPdf_tiles"}

\* the geometry of the features a layer returns: every one usable, the first
\* one without usable geometry, or none with usable geometry
Geometries == {"usable", "firstNull", "allNull"}

----------------------------------------------------------------------------
(* The loop nest of the two-pass handlers *)

\* the passes with the fuzzy one first
passes_likeFirst == << "like", "exact" >>

\* const passes = ["exact", "like"]: the order of the outer loop
passes == << "exact", "like" >>

\* const targets = datasetKey === "mdsha_tmdl_any" ? TMDL_ANY : [datasetKey]
targets(datasetKey) ==
    IF datasetKey = "mdsha_tmdl_any" THEN TMDL_ANY ELSE << datasetKey >>

\* let datasetKey = inputDataset || guessDatasetFromId(assetId)
datasetKey_of(r) ==
    IF r.dataset # "" THEN r.dataset ELSE guessDatasetFromId(r.assetId)

RECURSIVE Flatten(_)
Flatten(ss) == IF ss = << >> THEN << >> ELSE Head(ss) \o Flatten(Tail(ss))

\* the upstream layers one target key stands for; a key the registry lacks
\* is skipped (if (!ds) continue), and for a name the registry inherits the
\* predicate builder throws before a query is sent
layersOf(ep, key) ==
    IF key \notin DATASETS_of(ep) THEN << >>
    ELSE IF key = "montgomery_county"
         THEN [i \in 1..Len(montgomery_layers) |->
                 [key |-> key, layer |-> montgomery_layers[i], catches |-> TRUE]]
         ELSE << [key |-> key, layer |-> key, catches |-> FALSE] >>

\* the loops the other way round: both passes on a layer, then the next layer
loopNest_layerMajor(ps, ls) ==
    [i \in 1..(Len(ps) * Len(ls)) |->
        [pass    |-> ps[((i - 1) % Len(ps)) + 1],
         key     |-> ls[((i - 1) \div Len(ps)) + 1].key,
         layer   |-> ls[((i - 1) \div Len(ps)) + 1].layer,
         catches |-> ls[((i - 1) \div Len(ps)) + 1].catches,
         field   |-> 0]]

\* for (const pass of passes) { for (const key of targets) { ... } }
loopNest(ps, ls) ==
    [i \in 1..(Len(ps) * Len(ls)) |->
        [pass    |-> ps[((i - 1) \div Len(ls)) + 1],
         key     |-> ls[((i - 1) % Len(ls)) + 1].key,
         layer   |-> ls[((i - 1) % Len(ls)) + 1].layer,
         catches |-> ls[((i - 1) % Len(ls)) + 1].catches,
         field   |-> 0]]

\* the probes of a two-pass handler, in the order the loops reach them
passPlan(ep, r) ==
    LET ts == targets(datasetKey_of(r))
    IN  loopNest(passes, Flatten([i \in 1..Len(ts) |-> layersOf(ep, ts[i])]))

\* the probes of fetchOneFeatureAsGeoJSON: one query per id field
fieldProbes(key) ==
    [i \in 1..Len(idFields(key)) |->
        [pass |-> "exact", key |-> key, layer |-> key, catches |-> TRUE,
         field |-> i]]

\* one query of a layer with every id field in the predicate
layerProbe(key) ==
    [pass |-> "exact", key |-> key, layer |-> key, catches |-> FALSE, field |-> 0]

\* one query of a layer with the equality and the LIKE terms in one predicate
orProbe(key) ==
    [pass |-> "any", key |-> key, layer |-> key, catches |-> FALSE, field |-> 0]

\* fetch(geojsonUrl): the GET of the document the body names
urlProbe ==
    [pass |-> "url", key |-> "", layer |-> geojsonUrl, catches |-> FALSE,
     field |-> 0]

\* tryLayer: the GET of the layer's metadata, the query with f=geojson and
\* the query with f=json, each with the equality and the LIKE terms
tryLayer(key, layer) ==
    << [pass |-> "meta", key |-> key, layer |-> layer, catches |-> FALSE, field |-> 0],
       [pass |-> "any",  key |-> key, layer |-> layer, catches |-> TRUE,  field |-> 0],
       [pass |-> "esri", key |-> key, layer |-> layer, catches |-> FALSE, field |-> 0] >>

\* the GET of a basemap image
tileProbe ==
    [pass |-> "tile", key |-> "", layer |-> basemap, catches |-> FALSE, field |-> 0]

\* the signatures of mapshaper toKmlWithMapshaper tries one after the other
MapshaperSignatures == 3

\* the probes of a handler that takes geojson or geojsonUrl from the body
\* and looks the asset up, with one predicate, when the body has neither
geojsonPlan(ep, r) ==
    CASE r.geojson = "url" -> << urlProbe >>
      [] r.geojson # ""    -> << >>
      [] OTHER ->
           IF r.dataset \in DATASETS_of(ep) /\ r.assetId # << >>
           THEN << orProbe(r.dataset) >> ELSE << >>

\* one equality query of the layer of the key; of a URL made of undefined
\* base and field for a name the registry inherits
singlePlan(ep, r) ==
    IF r.assetId = << >> THEN << >>
    ELSE IF r.dataset \in ObjectPrototype
         THEN << [layerProbe(r.dataset) EXCEPT !.layer = undefinedLayer] >>
         ELSE IF r.dataset \in DATASETS_of(ep)
              THEN << layerProbe(r.dataset) >> ELSE << >>

\* ds.type === "single" ? tryLayer(ds.layers[0].base) : every layer in turn
metaPlan(ep, r) ==
    IF r.assetId = << >> \/ r.dataset \notin DATASETS_of(ep) THEN << >>
    ELSE LET ts == targets(r.dataset)
         IN  Flatten([i \in 1..Len(ts) |-> tryLayer(r.dataset, ts[i])])

\* body?.geojson is truthy: an object or a non-empty string; geojsonUrl is
\* not read by the handler that asks this
handed(r) == r.geojson \in {"collection", "other", "malformed"}

\* the upstream queries a handler would issue, one after the other, if none
\* of them returned a feature
plan(ep, r) ==
    LET known(ks) == SelectSeq(ks, LAMBDA k : k \in DATASETS_of(ep))
    IN  CASE ep \in {"convert_passes", "convert_montgomery"} -> passPlan(ep, r)
          [] ep = "convert_fields" ->
               LET ks == IF handed(r) THEN << >> ELSE known(targets(r.dataset))
               IN  Flatten([i \in 1..Len(ks) |-> fieldProbes(ks[i])])
          [] ep = "convert_fields2" ->
               LET ks == known(<< r.dataset >>)
               IN  Flatten([i \in 1..Len(ks) |-> fieldProbes(ks[i])])
          [] ep = "convert_url" ->
               IF r.dataset \in ObjectPrototype
               THEN << [layerProbe(r.dataset) EXCEPT !.layer = undefinedLayer] >>
               ELSE LET ks == known(<< r.dataset >>)
                    IN  [i \in 1..Len(ks) |-> layerProbe(ks[i])]
          [] ep = "convert_any" ->
               LET ks == known(targets(r.dataset))
               IN  [i \in 1..Len(ks) |-> layerProbe(ks[i])]
          [] ep \in TakingGeojson \ {"convert_fields"} -> geojsonPlan(ep, r)
          [] ep \in {"convert_single", "convert_stdout", "locate_single"} ->
               singlePlan(ep, r)
          [] ep = "locate_exact" ->
               LET ks == known(<< r.dataset >>)
               IN  [i \in 1..Len(ks) |-> layerProbe(ks[i])]
          [] ep = "locate_meta" -> metaPlan(ep, r)
          [] ep = "mapPdf_tiles" ->
               LET ks == IF r.assetId = << >> THEN << >> ELSE known(<< r.dataset >>)
               IN  Flatten([i \in 1..Len(ks) |-> << layerProbe(ks[i]), tileProbe >>])
          [] ep = "mapPdf_static" -> << >>
          [] ep = "locate" ->
               LET ks == known(<< r.dataset >>)
               IN  loopNest(passes, Flatten([i \in 1..Len(ks) |-> layersOf(ep, ks[i])]))

----------------------------------------------------------------------------
(* One upstream query *)

\* whether the layer answers the predicate of probe p with a feature: an
\* equality predicate selects the feature whose field equals the ID, a LIKE
\* predicate, alone or ORed to the equality, the fuzzy one as well
matches(p) ==
    LET held == upstream[p.layer]
    IN  IF p.field # 0
        THEN held.kind \in {"exact", "both"} /\ held.field = p.field
        ELSE IF p.pass = "exact"
             THEN held.kind \in {"exact", "both"}
             ELSE held.kind \in {"exact", "fuzzy", "both"}

\* arr.map(esriToGeoJSONFeature).filter(Boolean) leaves no feature
allFilteredOut(p) ==
    endpoint \in {"convert_passes", "convert_montgomery"}
        /\ upstream[p.layer].geometry = "allNull"

\* the outcome of the GET of probe p: a timeout or a status other than 200
\* while the layer is out of reach, the layer's answer otherwise
fetchArcgisAsGeoJSON(p) ==
    IF upstream[p.layer].down \/ (upstream[p.layer].noGeojson /\ p.pass = "any")
    THEN "error"
    ELSE IF matches(p) /\ ~allFilteredOut(p) THEN "hit" ELSE "empty"

\* the match of the feature the layer returns first for the predicate of p:
\* a layer holding both returns the exact one first
firstKind(p) ==
    IF p.pass = "exact" \/ p.field # 0 \/ upstream[p.layer].kind # "fuzzy"
    THEN "exact" ELSE "fuzzy"

\* the matches of all the features the layer returns for the predicate of p
allKinds(p) ==
    IF p.pass = "exact" \/ p.field # 0 THEN {"exact"}
    ELSE CASE upstream[p.layer].kind = "both"  -> {"exact", "fuzzy"}
           [] upstream[p.layer].kind = "fuzzy" -> {"fuzzy"}
           [] OTHER -> {"exact"}

\* features[0] with the provenance properties spread over its own
tagged(p) ==
    [key |-> p.key, layer |-> p.layer, pass |-> p.pass,
     features |-> {firstKind(p)}, geometry |-> "usable",
     properties |-> [_assetId |-> req.assetId, _dataset |-> p.key,
                     _sourceLabel |-> p.layer, _matchMode |-> p.pass]]

\* features[0] as the layer returned it
firstFeature(p) ==
    [key |-> p.key, layer |-> p.layer, pass |-> p.pass,
     features |-> {firstKind(p)},
     geometry |-> IF upstream[p.layer].geometry = "usable" THEN "usable" ELSE "null",
     properties |-> << >>]

\* the FeatureCollection as the layer returned it, every feature kept
wholeCollection(p) ==
    [key |-> p.key, layer |-> p.layer, pass |-> p.pass,
     features |-> allKinds(p), geometry |-> "usable", properties |-> << >>]

\* the FeatureCollection the body brought along
clientCollection ==
    [key |-> "", layer |-> "body", pass |-> "client", features |-> {"client"},
     geometry |-> "usable", properties |-> << >>]

\* the FeatureCollection read from the document geojsonUrl names
fetched ==
    [key |-> "", layer |-> geojsonUrl, pass |-> "url", features |-> {"client"},
     geometry |-> "usable", properties |-> << >>]

\* the FeatureCollection geocodeMontgomery makes of the top candidate
geocoded ==
    [key |-> "montgomery_county", layer |-> "GeocodeServer", pass |-> "geocode",
     features |-> {"geocoded"}, geometry |-> "usable",
     properties |-> [_geocoded |-> TRUE,
                     _sourceLabel |-> "Montgomery County Geocoder"]]

issued(p, res) ==
    [pass |-> p.pass, key |-> p.key, layer |-> p.layer, field |-> p.field,
     result |-> res]

\* the loops without their break: on to the next probe
afterMatch_noBreak(c, n) == c + 1

\* the position of the loop nest after a probe at position c of n returned
\* a feature: break, and if (fc) break
afterMatch(c, n) == n + 1

respond(code, text) ==
    /\ status' = code
    /\ error' = text
    /\ pc' = "responded"

\* the branch if (geojson || geojsonUrl) up to the fetch: JSON.parse of a
\* string throws into the catch, what is no FeatureCollection is answered 400
takeGeojson(failed) ==
    CASE req.geojson = "collection" ->
           /\ fc' = clientCollection
           /\ pc' = "resolving"
           /\ UNCHANGED << status, error >>
      [] req.geojson = "other" ->
           /\ respond(400, "Provided GeoJSON is not a FeatureCollection")
           /\ UNCHANGED fc
      [] req.geojson = "malformed" ->
           /\ respond(500, failed)
           /\ UNCHANGED fc
      [] req.geojson = "url" ->
           /\ pc' = "resolving"
           /\ UNCHANGED << status, error, fc >>

\* data = await (await fetch(geojsonUrl)).json(): the status is not looked
\* at, a body that is no JSON throws into the catch, JSON that is no
\* FeatureCollection is answered 400, a FeatureCollection is taken as it is,
\* with or without features
fetchGeojsonUrl(res, failed) ==
    CASE res = "error" ->
           /\ \/ respond(500, failed)
              \/ respond(400, "Provided GeoJSON is not a FeatureCollection")
           /\ UNCHANGED << cursor, fc >>
      [] res = "empty" ->
           \/ /\ respond(400, "Provided GeoJSON is not a FeatureCollection")
              /\ UNCHANGED << cursor, fc >>
           \/ /\ fc' = [fetched EXCEPT !.features = {}]
              /\ cursor' = cursor + 1
              /\ UNCHANGED << pc, status, error >>
      [] res = "hit" ->
           /\ fc' = fetched
           /\ cursor' = cursor + 1
           /\ UNCHANGED << pc, status, error >>

\* the subsets of L of at most n elements
upTo(n, L) == {X \in SUBSET L : Cardinality(X) <= n}

\* what the layers of S may hold for a handler: the matching id field varies
\* where the handler queries one field at a time and one layer only holds a
\* feature; a layer holds both an exact and a fuzzy match only for handlers
\* that keep every feature
contentsFor(ep, S) ==
    {c \in Contents :
        /\ c.field <= (IF ep \in PerField /\ Cardinality(S) = 1 THEN 4 ELSE 1)
        /\ c.kind = "both" => ep \in KeepingAll}

\* the layer that returns features without usable geometry, and how many of
\* its features lack it
oddities(ep, S) ==
    {<< "none", "usable" >>}
    \cup (IF ep \in Translating \cup NeedingGeometry
          THEN (S \ {geojsonUrl}) \X (Geometries \ {"usable"}) ELSE {})

\* how the layers of D are out of the ordinary
outagesOf(ep, S, D) ==
    {how \in Outages :
        /\ how = "timeout" => (D # {} /\ ep \in TellingTimeouts)
        /\ how = "noGeojson" =>
              (D # {} /\ D \cap NoLayers = {} /\ ep \in TryingLayers)
        /\ how = "noIdField" =>
              (D # {} /\ D \cap S = {} /\ ep \in TryingLayers)}

Init ==
    /\ endpoint \in Endpoints
    /\ req \in Requests
    /\ req.geojson # "" => endpoint \in TakingGeojson
    /\ nest = plan(endpoint, req)
    /\ \E S \in upTo(MaxHits, {nest[i].layer : i \in 1..Len(nest)} \ NoLayers),
          D \in upTo(MaxDown, {nest[i].layer : i \in 1..Len(nest)}) :
          \E held \in [S -> contentsFor(endpoint, S)],
             odd \in oddities(endpoint, S),
             how \in outagesOf(endpoint, S, D) :
                /\ \A l \in S :
                      /\ endpoint \in PerField => held[l].field <= Len(idFields(l))
                      /\ l = geojsonUrl => held[l].kind = "exact"
                /\ upstream = [l \in Layers |->
                      [kind     |-> IF l \in S THEN held[l].kind ELSE "none",
                       field    |-> IF l \in S THEN held[l].field ELSE 1,
                       geometry |-> IF l = odd[1] THEN odd[2] ELSE "usable",
                       down     |-> l \in D /\ how \in {"status", "timeout"},
                       timedOut |-> l \in D /\ how = "timeout",
                       noGeojson |-> l \in D /\ how = "noGeojson",
                       noIdField |-> l \in D /\ how = "noIdField"]]
    /\ pc = "received"
    /\ cursor = 1
    /\ probes = << >>
    /\ fc = NoFC
    /\ status = 0
    /\ error = ""
    /\ encoderCalls = 0
    /\ id = << >>
    /\ builder = ""
    /\ sent = << >>
    /\ vals = << >>
    /\ forKey = ""
    /\ native = << >>
    /\ geom = << >>
    /\ registry = << >>
    /\ aliases = << >>
    /\ lookup = << >>
    /\ resolved = << >>
    /\ bulkIdle

----------------------------------------------------------------------------
(* /convert, two passes over the target layers *)

\* read the body, settle the dataset; for a name the registry inherits
\* ds.idFields is undefined and buildWhereExact throws into the catch
convert_passes_read ==
    /\ endpoint = "convert_passes"
    /\ pc = "received"
    /\ IF req.assetId = << >>
       THEN respond(400, "assetId is required")
       ELSE IF datasetKey_of(req) = ""
            THEN respond(400, "Unknown dataset. Pick one or use a recognizable ID.")
            ELSE IF datasetKey_of(req) \in ObjectPrototype
                 THEN respond(500, "Conversion failed")
                 ELSE /\ pc' = "resolving"
                      /\ UNCHANGED << status, error >>
    /\ UNCHANGED << endpoint, req, upstream, nest, cursor, probes, fc, encoderCalls >>
    /\ UNCHANGED whereVars

\* one turn of the inner loop: build the predicate, await the query
convert_passes_probe ==
    /\ endpoint = "convert_passes"
    /\ pc = "resolving"
    /\ cursor <= Len(nest)
    /\ LET p == nest[cursor]
           res == fetchArcgisAsGeoJSON(p)
       IN
              /\ probes' = Append(probes, issued(p, res))
              /\ CASE res = "error" ->
                        /\ respond(500, "Conversion failed")
                        /\ UNCHANGED << cursor, fc >>
                   [] res = "hit" ->
                        /\ fc' = tagged(p)
                        /\ cursor' = afterMatch(cursor, Len(nest))
                        /\ UNCHANGED << pc, status, error >>
                   [] res = "empty" ->
                        /\ cursor' = cursor + 1
                        /\ UNCHANGED << fc, pc, status, error >>
    /\ UNCHANGED << endpoint, req, upstream, nest, encoderCalls >>
    /\ UNCHANGED whereVars

\* if (!fc) 404
convert_passes_notFound ==
    /\ endpoint = "convert_passes"
    /\ pc = "resolving"
    /\ cursor > Len(nest)
    /\ fc = NoFC
    /\ respond(404, "No feature found")
    /\ UNCHANGED << endpoint, req, upstream, nest, cursor, probes, fc, encoderCalls >>
    /\ UNCHANGED whereVars

\* convert via mapshaper and send the file, or fail
convert_passes_encode ==
    /\ endpoint = "convert_passes"
    /\ pc = "resolving"
    /\ cursor > Len(nest)
    /\ fc # NoFC
    /\ encoderCalls' = encoderCalls + 1
    /\ \E ok \in BOOLEAN :
          IF ok THEN respond(200, "") ELSE respond(500, "Conversion failed")
    /\ UNCHANGED << endpoint, req, upstream, nest, cursor, probes, fc >>
    /\ UNCHANGED whereVars

----------------------------------------------------------------------------
(* /convert with the unified Montgomery County dataset *)

convert_montgomery_read ==
    /\ endpoint = "convert_montgomery"
    /\ pc = "received"
    /\ IF req.assetId = << >>
       THEN respond(400, "assetId is required")
       ELSE IF datasetKey_of(req) = ""
            THEN respond(400, "Unknown dataset. Pick one or use a recognizable ID.")
            ELSE IF datasetKey_of(req) \in ObjectPrototype
                 THEN respond(500, "Conversion failed")
                 ELSE /\ pc' = "resolving"
                      /\ UNCHANGED << status, error >>
    /\ UNCHANGED << endpoint, req, upstream, nest, cursor, probes, fc, encoderCalls >>
    /\ UNCHANGED whereVars

\* one query: of an inner layer of montgomery_county inside try/catch, of
\* any other dataset outside of it
convert_montgomery_probe ==
    /\ endpoint = "convert_montgomery"
    /\ pc = "resolving"
    /\ cursor <= Len(nest)
    /\ LET p == nest[cursor]
           res == fetchArcgisAsGeoJSON(p)
       IN
              /\ probes' = Append(probes, issued(p, res))
              /\ CASE res = "error" /\ ~p.catches ->
                        /\ respond(500, "Conversion failed")
                        /\ UNCHANGED << cursor, fc >>
                   [] res = "hit" ->
                        /\ fc' = tagged(p)
                        /\ cursor' = afterMatch(cursor, Len(nest))
                        /\ UNCHANGED << pc, status, error >>
                   [] OTHER ->
                        /\ cursor' = cursor + 1
                        /\ UNCHANGED << fc, pc, status, error >>
    /\ UNCHANGED << endpoint, req, upstream, nest, encoderCalls >>
    /\ UNCHANGED whereVars

\* if (!fc && targets.length === 1 && targets[0] === "montgomery_county"
\*     && looksLikeAddress(assetId))
geocoderFallback ==
    /\ fc = NoFC
    /\ targets(datasetKey_of(req)) = << "montgomery_county" >>
    /\ looksLikeAddress(req.assetId)

\* the geocoder fallback: a candidate becomes the feature, none or a status
\* other than 200 leaves fc null, a timeout is thrown
convert_montgomery_geocode ==
    /\ endpoint = "convert_montgomery"
    /\ pc = "resolving"
    /\ cursor > Len(nest)
    /\ geocoderFallback
    /\ \A i \in 1..Len(probes) : probes[i].pass # "geocode"
    /\ LET p == [pass |-> "geocode", key |-> "montgomery_county",
                 layer |-> "GeocodeServer", field |-> 0]
       IN  \E res \in {"hit", "empty", "error"} :
              /\ probes' = Append(probes, issued(p, res))
              /\ CASE res = "error" ->
                        /\ respond(500, "Conversion failed")
                        /\ UNCHANGED fc
                   [] res = "hit" ->
                        /\ fc' = geocoded
                        /\ UNCHANGED << pc, status, error >>
                   [] res = "empty" ->
                        /\ respond(404, "No feature found")
                        /\ UNCHANGED fc
    /\ UNCHANGED << endpoint, req, upstream, nest, cursor, encoderCalls >>
    /\ UNCHANGED whereVars

convert_montgomery_notFound ==
    /\ endpoint = "convert_montgomery"
    /\ pc = "resolving"
    /\ cursor > Len(nest)
    /\ fc = NoFC
    /\ ~geocoderFallback
    /\ respond(404, "No feature found")
    /\ UNCHANGED << endpoint, req, upstream, nest, cursor, probes, fc, encoderCalls >>
    /\ UNCHANGED whereVars

convert_montgomery_encode ==
    /\ endpoint = "convert_montgomery"
    /\ pc = "resolving"
    /\ cursor > Len(nest)
    /\ fc # NoFC
    /\ encoderCalls' = encoderCalls + 1
    /\ \E ok \in BOOLEAN :
          IF ok THEN respond(200, "") ELSE respond(500, "Conversion failed")
    /\ UNCHANGED << endpoint, req, upstream, nest, cursor, probes, fc >>
    /\ UNCHANGED whereVars

----------------------------------------------------------------------------
(* /convert, one query per id field (api/convert.js, first generation) *)

\* what body.geojson holds, taken as it is: the handler does not look at it,
\* so what is no FeatureCollection goes to the encoder without a feature
handedOver ==
    [clientCollection EXCEPT
        !.features = IF req.geojson = "collection" THEN {"client"} ELSE {}]

\* const assetId = body?.assetId?.trim(); const dataset = body?.dataset?.trim();
\* let fc = body?.geojson || null: with geojson in the body neither assetId
\* nor dataset is asked for and no layer is queried.  Without it, for a name
\* the registry inherits cfg.idFields is undefined and the loop over it throws
\* into the catch
convert_fields_read ==
    /\ endpoint = "convert_fields"
    /\ pc = "received"
    /\ IF handed(req)
       THEN /\ fc' = handedOver
            /\ pc' = "resolving"
            /\ UNCHANGED << status, error >>
       ELSE /\ IF trim(req.assetId) = << >> \/ req.dataset = ""
               THEN respond(400, "Missing assetId/dataset or geojson")
               ELSE IF req.dataset \in ObjectPrototype
                    THEN respond(500, "Conversion failed")
                    ELSE /\ pc' = "resolving"
                         /\ UNCHANGED << status, error >>
            /\ UNCHANGED fc
    /\ UNCHANGED << endpoint, req, upstream, nest, cursor, probes, encoderCalls >>
    /\ UNCHANGED whereVars

\* one turn of the loop over cfg.idFields: a feature ends the lookup, a
\* status other than 200 or a thrown error moves on to the next field
convert_fields_probe ==
    /\ endpoint = "convert_fields"
    /\ pc = "resolving"
    /\ cursor <= Len(nest)
    /\ LET p == nest[cursor]
           res == fetchArcgisAsGeoJSON(p)
       IN
              /\ probes' = Append(probes, issued(p, res))
              /\ IF res = "hit"
                 THEN /\ fc' = firstFeature(p)
                      /\ cursor' = afterMatch(cursor, Len(nest))
                 ELSE /\ cursor' = cursor + 1
                      /\ UNCHANGED fc
    /\ UNCHANGED << endpoint, req, upstream, nest, pc, status, error, encoderCalls >>
    /\ UNCHANGED whereVars

convert_fields_notFound ==
    /\ endpoint = "convert_fields"
    /\ pc = "resolving"
    /\ cursor > Len(nest)
    /\ fc = NoFC
    /\ respond(404, "No feature found")
    /\ UNCHANGED << endpoint, req, upstream, nest, cursor, probes, fc, encoderCalls >>
    /\ UNCHANGED whereVars

convert_fields_encode ==
    /\ endpoint = "convert_fields"
    /\ pc = "resolving"
    /\ cursor > Len(nest)
    /\ fc # NoFC
    /\ encoderCalls' = encoderCalls + 1
    /\ \E ok \in BOOLEAN :
          IF ok THEN respond(200, "") ELSE respond(500, "Conversion failed")
    /\ UNCHANGED << endpoint, req, upstream, nest, cursor, probes, fc >>
    /\ UNCHANGED whereVars

----------------------------------------------------------------------------
(* /convert, one query per id field, unknown dataset thrown *)

\* the body is checked, then fetchOneFeatureAsGeoJSON throws for a key the
\* registry lacks
convert_fields2_read ==
    /\ endpoint = "convert_fields2"
    /\ pc = "received"
    /\ IF req.assetId = << >> \/ req.dataset = ""
       THEN respond(400, "Missing assetId or dataset")
       ELSE IF ~truthy(endpoint, req.dataset)
            THEN respond(500, "Conversion failed: Unknown dataset")
            ELSE IF req.dataset \in ObjectPrototype
                 THEN respond(500, "Conversion failed: Dataset has no id field mapping")
            ELSE /\ pc' = "resolving"
                 /\ UNCHANGED << status, error >>
    /\ UNCHANGED << endpoint, req, upstream, nest, cursor, probes, fc, encoderCalls >>
    /\ UNCHANGED whereVars

convert_fields2_probe ==
    /\ endpoint = "convert_fields2"
    /\ pc = "resolving"
    /\ cursor <= Len(nest)
    /\ LET p == nest[cursor]
           res == fetchArcgisAsGeoJSON(p)
       IN
              /\ probes' = Append(probes, issued(p, res))
              /\ IF res = "hit"
                 THEN /\ fc' = firstFeature(p)
                      /\ cursor' = afterMatch(cursor, Len(nest))
                 ELSE /\ cursor' = cursor + 1
                      /\ UNCHANGED fc
    /\ UNCHANGED << endpoint, req, upstream, nest, pc, status, error, encoderCalls >>
    /\ UNCHANGED whereVars

convert_fields2_notFound ==
    /\ endpoint = "convert_fields2"
    /\ pc = "resolving"
    /\ cursor > Len(nest)
    /\ fc = NoFC
    /\ respond(404, "No feature found")
    /\ UNCHANGED << endpoint, req, upstream, nest, cursor, probes, fc, encoderCalls >>
    /\ UNCHANGED whereVars

convert_fields2_encode ==
    /\ endpoint = "convert_fields2"
    /\ pc = "resolving"
    /\ cursor > Len(nest)
    /\ fc # NoFC
    /\ encoderCalls' = encoderCalls + 1
    /\ \E ok \in BOOLEAN :
          IF ok THEN respond(200, "") ELSE respond(500, "Conversion failed")
    /\ UNCHANGED << endpoint, req, upstream, nest, cursor, probes, fc >>
    /\ UNCHANGED whereVars

----------------------------------------------------------------------------
(* /convert, the URL built per dataset key *)

\* buildQueryUrl returns null for a key it does not know; for a name
\* layerDefs inherits it returns a URL made of undefined layer and field
convert_url_read ==
    /\ endpoint = "convert_url"
    /\ pc = "received"
    /\ IF trim(req.assetId) = << >> \/ req.dataset = ""
       THEN respond(400, "Missing assetId or dataset")
       ELSE IF ~truthy(endpoint, req.dataset)
            THEN respond(400, "Unknown dataset")
            ELSE /\ pc' = "resolving"
                 /\ UNCHANGED << status, error >>
    /\ UNCHANGED << endpoint, req, upstream, nest, cursor, probes, fc, encoderCalls >>
    /\ UNCHANGED whereVars

\* what ensureAtLeastOneFeature throws for a body without features: the
\* server may answer the query of a layer it does not have with a body that
\* is no FeatureCollection
notACollection(p) ==
    {"No feature found for that ID."}
    \cup (IF p.layer = undefinedLayer
          THEN {"ArcGIS did not return a FeatureCollection (VPN needed?)"} ELSE {})

\* fetchGeoJSON, then ensureAtLeastOneFeature: both throw into the catch
convert_url_probe ==
    /\ endpoint = "convert_url"
    /\ pc = "resolving"
    /\ cursor <= Len(nest)
    /\ LET p == nest[cursor]
           res == fetchArcgisAsGeoJSON(p)
       IN
              /\ probes' = Append(probes, issued(p, res))
              /\ CASE res = "error" ->
                        /\ respond(500, IF upstream[p.layer].timedOut
                                        THEN "Conversion failed: ArcGIS request timed out (VPN required for MDOT SHA layers?)"
                                        ELSE "Conversion failed: ArcGIS request failed")
                        /\ UNCHANGED << cursor, fc >>
                   [] res = "empty" ->
                        /\ \E text \in notACollection(p) :
                              respond(500, "Conversion failed: " \o text)
                        /\ UNCHANGED << cursor, fc >>
                   [] res = "hit" ->
                        /\ fc' = wholeCollection(p)
                        /\ cursor' = afterMatch(cursor, Len(nest))
                        /\ UNCHANGED << pc, status, error >>
    /\ UNCHANGED << endpoint, req, upstream, nest, encoderCalls >>
    /\ UNCHANGED whereVars

convert_url_encode ==
    /\ endpoint = "convert_url"
    /\ pc = "resolving"
    /\ cursor > Len(nest)
    /\ fc # NoFC
    /\ encoderCalls' = encoderCalls + 1
    /\ \E ok \in BOOLEAN :
          IF ok THEN respond(200, "") ELSE respond(500, "Conversion failed")
    /\ UNCHANGED << endpoint, req, upstream, nest, cursor, probes, fc >>
    /\ UNCHANGED whereVars

----------------------------------------------------------------------------
(* /convert with the virtual dataset mdsha_tmdl_any in the registry *)

\* fetchFeatureFC throws for a key the registry lacks, buildWhere for a name
\* the registry inherits
convert_any_read ==
    /\ endpoint = "convert_any"
    /\ pc = "received"
    /\ IF trim(req.assetId) = << >> \/ req.dataset = ""
       THEN respond(400, "Missing assetId or dataset")
       ELSE IF req.dataset \notin DATASETS_of(endpoint)
            THEN respond(500, "Conversion failed")
            ELSE /\ pc' = "resolving"
                 /\ UNCHANGED << status, error >>
    /\ UNCHANGED << endpoint, req, upstream, nest, cursor, probes, fc, encoderCalls >>
    /\ UNCHANGED whereVars

\* queryGeoJSON of one layer: a failed GET is thrown into the catch
convert_any_probe ==
    /\ endpoint = "convert_any"
    /\ pc = "resolving"
    /\ cursor <= Len(nest)
    /\ LET p == nest[cursor]
           res == fetchArcgisAsGeoJSON(p)
       IN
              /\ probes' = Append(probes, issued(p, res))
              /\ CASE res = "error" ->
                        /\ respond(500, "Conversion failed")
                        /\ UNCHANGED << cursor, fc >>
                   [] res = "hit" ->
                        /\ fc' = firstFeature(p)
                        /\ cursor' = afterMatch(cursor, Len(nest))
                        /\ UNCHANGED << pc, status, error >>
                   [] res = "empty" ->
                        /\ cursor' = cursor + 1
                        /\ UNCHANGED << fc, pc, status, error >>
    /\ UNCHANGED << endpoint, req, upstream, nest, encoderCalls >>
    /\ UNCHANGED whereVars

convert_any_notFound ==
    /\ endpoint = "convert_any"
    /\ pc = "resolving"
    /\ cursor > Len(nest)
    /\ fc = NoFC
    /\ respond(404, "No feature found")
    /\ UNCHANGED << endpoint, req, upstream, nest, cursor, probes, fc, encoderCalls >>
    /\ UNCHANGED whereVars

convert_any_encode ==
    /\ endpoint = "convert_any"
    /\ pc = "resolving"
    /\ cursor > Len(nest)
    /\ fc # NoFC
    /\ encoderCalls' = encoderCalls + 1
    /\ \E ok \in BOOLEAN :
          IF ok THEN respond(200, "") ELSE respond(500, "Conversion failed")
    /\ UNCHANGED << endpoint, req, upstream, nest, cursor, probes, fc >>
    /\ UNCHANGED whereVars

----------------------------------------------------------------------------
(* /convert with one predicate: (equality terms) OR (LIKE terms) *)

\* the dataset is looked up first, then the assetId is checked; for a name
\* the registry inherits cfg.idFields is undefined and buildWhere throws
convert_or_read ==
    /\ endpoint = "convert_or"
    /\ pc = "received"
    /\ IF req.geojson # ""
       THEN takeGeojson("Conversion failed")
       ELSE /\ UNCHANGED fc
            /\ IF ~truthy(endpoint, req.dataset)
               THEN respond(400, "Unknown dataset")
               ELSE IF req.assetId = << >>
                    THEN respond(400, "assetId is required")
                    ELSE IF req.dataset \in ObjectPrototype
                         THEN respond(500, "Conversion failed")
                         ELSE /\ pc' = "resolving"
                              /\ UNCHANGED << status, error >>
    /\ UNCHANGED << endpoint, req, upstream, nest, cursor, probes, encoderCalls >>
    /\ UNCHANGED whereVars

\* fetchArcgisGeoJSON with the predicate of buildWhere: the collection the
\* layer returns is kept whole, an empty one is answered 404
convert_or_probe ==
    /\ endpoint = "convert_or"
    /\ pc = "resolving"
    /\ cursor <= Len(nest)
    /\ LET p == nest[cursor]
           res == fetchArcgisAsGeoJSON(p)
       IN
              /\ probes' = Append(probes, issued(p, res))
              /\ CASE p.pass = "url" -> fetchGeojsonUrl(res, "Conversion failed")
                   [] p.pass # "url" /\ res = "error" ->
                        /\ respond(500, "Conversion failed")
                        /\ UNCHANGED << cursor, fc >>
                   [] p.pass # "url" /\ res = "empty" ->
                        /\ respond(404, "No feature found for given assetId")
                        /\ UNCHANGED << cursor, fc >>
                   [] p.pass # "url" /\ res = "hit" ->
                        /\ fc' = wholeCollection(p)
                        /\ cursor' = afterMatch(cursor, Len(nest))
                        /\ UNCHANGED << pc, status, error >>
    /\ UNCHANGED << endpoint, req, upstream, nest, encoderCalls >>
    /\ UNCHANGED whereVars

convert_or_encode ==
    /\ endpoint = "convert_or"
    /\ pc = "resolving"
    /\ cursor > Len(nest)
    /\ fc # NoFC
    /\ encoderCalls' = encoderCalls + 1
    /\ \E ok \in BOOLEAN :
          IF ok THEN respond(200, "") ELSE respond(500, "Conversion failed")
    /\ UNCHANGED << endpoint, req, upstream, nest, cursor, probes, fc >>
    /\ UNCHANGED whereVars

----------------------------------------------------------------------------
(* /locate: the centroid of one feature *)

\* for a name the registry inherits ds.idFields is undefined and
\* buildWhereExact throws into the catch
locate_read ==
    /\ endpoint = "locate"
    /\ pc = "received"
    /\ IF req.assetId = << >> \/ req.dataset = ""
       THEN respond(400, "Missing assetId or dataset")
       ELSE IF ~truthy(endpoint, req.dataset)
            THEN respond(400, "Unknown dataset")
            ELSE IF req.dataset \in ObjectPrototype
                 THEN respond(500, "fields is not iterable")
                 ELSE /\ pc' = "resolving"
                      /\ UNCHANGED << status, error >>
    /\ UNCHANGED << endpoint, req, upstream, nest, cursor, probes, fc, encoderCalls >>
    /\ UNCHANGED whereVars

\* Pass A, and Pass B if Pass A returned no feature; a failed GET is thrown
\* into the catch
locate_probe ==
    /\ endpoint = "locate"
    /\ pc = "resolving"
    /\ cursor <= Len(nest)
    /\ LET p == nest[cursor]
           res == fetchArcgisAsGeoJSON(p)
       IN
              /\ probes' = Append(probes, issued(p, res))
              /\ CASE res = "error" ->
                        /\ respond(500, "Request failed")
                        /\ UNCHANGED << cursor, fc >>
                   [] res = "hit" ->
                        /\ fc' = firstFeature(p)
                        /\ cursor' = afterMatch(cursor, Len(nest))
                        /\ UNCHANGED << pc, status, error >>
                   [] res = "empty" ->
                        /\ cursor' = cursor + 1
                        /\ UNCHANGED << fc, pc, status, error >>
    /\ UNCHANGED << endpoint, req, upstream, nest, encoderCalls >>
    /\ UNCHANGED whereVars

locate_notFound ==
    /\ endpoint = "locate"
    /\ pc = "resolving"
    /\ cursor > Len(nest)
    /\ fc = NoFC
    /\ respond(404, "No feature found")
    /\ UNCHANGED << endpoint, req, upstream, nest, cursor, probes, fc, encoderCalls >>
    /\ UNCHANGED whereVars

\* the geometry of feats[0] translated, its centroid computed and sent
locate_centroid ==
    /\ endpoint = "locate"
    /\ pc = "resolving"
    /\ cursor > Len(nest)
    /\ fc # NoFC
    /\ IF fc.geometry = "usable"
       THEN respond(200, "")
       ELSE respond(500, "Unable to compute centroid")
    /\ UNCHANGED << endpoint, req, upstream, nest, cursor, probes, fc, encoderCalls >>
    /\ UNCHANGED whereVars

----------------------------------------------------------------------------
(* /convert taking geojson or geojsonUrl, an earlier generation *)

\* as convert_or_read: the GeoJSON of the body if there is one, else the
\* dataset is looked up first, then the assetId is checked; for a name the
\* registry inherits cfg.idFields is undefined and whereExpr throws
convert_geojson_read ==
    /\ endpoint = "convert_geojson"
    /\ pc = "received"
    /\ IF req.geojson # ""
       THEN takeGeojson("Conversion failed")
       ELSE /\ UNCHANGED fc
            /\ IF ~truthy(endpoint, req.dataset)
               THEN respond(400, "Unknown dataset")
               ELSE IF req.assetId = << >>
                    THEN respond(400, "assetId is required")
                    ELSE IF req.dataset \in ObjectPrototype
                         THEN respond(500, "Conversion failed")
                         ELSE /\ pc' = "resolving"
                              /\ UNCHANGED << status, error >>
    /\ UNCHANGED << endpoint, req, upstream, nest, cursor, probes, encoderCalls >>
    /\ UNCHANGED whereVars

\* fetch(geojsonUrl), or fetchArcgisGeoJSON with the predicate of whereExpr:
\* the collection the layer returns is kept whole, an empty one answered 404
convert_geojson_probe ==
    /\ endpoint = "convert_geojson"
    /\ pc = "resolving"
    /\ cursor <= Len(nest)
    /\ LET p == nest[cursor]
           res == fetchArcgisAsGeoJSON(p)
       IN
              /\ probes' = Append(probes, issued(p, res))
              /\ CASE p.pass = "url" -> fetchGeojsonUrl(res, "Conversion failed")
                   [] p.pass # "url" /\ res = "error" ->
                        /\ respond(500, "Conversion failed")
                        /\ UNCHANGED << cursor, fc >>
                   [] p.pass # "url" /\ res = "empty" ->
                        /\ respond(404, "No feature found")
                        /\ UNCHANGED << cursor, fc >>
                   [] p.pass # "url" /\ res = "hit" ->
                        /\ fc' = wholeCollection(p)
                        /\ cursor' = afterMatch(cursor, Len(nest))
                        /\ UNCHANGED << pc, status, error >>
    /\ UNCHANGED << endpoint, req, upstream, nest, encoderCalls >>
    /\ UNCHANGED whereVars

\* one awaited call of toKmlWithMapshaper(fc): applyCommands with
\* { inputs, outputs }, when it throws applyCommands with the inputs, when
\* that throws runCommands.  The call that returns ends the tries: the file
\* is sent, or no out.kml is there and the catch answers; a call that throws
\* is followed by the next signature, or thrown into the catch when mapshaper
\* has no further one
convert_geojson_encode ==
    /\ endpoint = "convert_geojson"
    /\ pc = "resolving"
    /\ cursor > Len(nest)
    /\ fc # NoFC
    /\ encoderCalls < MapshaperSignatures
    /\ encoderCalls' = encoderCalls + 1
    /\ \/ respond(200, "")
       \/ respond(500, "Conversion failed")
       \/ /\ encoderCalls + 1 < MapshaperSignatures
          /\ UNCHANGED << pc, status, error >>
    /\ UNCHANGED << endpoint, req, upstream, nest, cursor, probes, fc >>
    /\ UNCHANGED whereVars

----------------------------------------------------------------------------
(* /convert of the first generations: one id field, one equality query *)

\* if (!assetId || !dataset) 400; if (!cfg) 400
convert_single_read ==
    /\ endpoint = "convert_single"
    /\ pc = "received"
    /\ IF req.assetId = << >> \/ req.dataset = ""
       THEN respond(400, "Missing assetId or dataset")
       ELSE IF ~truthy(endpoint, req.dataset)
            THEN respond(400, "Unsupported dataset '...'")
            ELSE /\ pc' = "resolving"
                 /\ UNCHANGED << status, error >>
    /\ UNCHANGED << endpoint, req, upstream, nest, cursor, probes, fc, encoderCalls >>
    /\ UNCHANGED whereVars

\* axios.get(url, { timeout: 20000 }): a failed GET is thrown into the
\* catch, an answer without features is answered 404, the answer is kept
convert_single_probe ==
    /\ endpoint = "convert_single"
    /\ pc = "resolving"
    /\ cursor <= Len(nest)
    /\ LET p == nest[cursor]
           res == fetchArcgisAsGeoJSON(p)
       IN
              /\ probes' = Append(probes, issued(p, res))
              /\ CASE res = "error" ->
                        /\ respond(500, "Conversion failed")
                        /\ UNCHANGED << cursor, fc >>
                   [] res = "empty" ->
                        /\ respond(404, "No feature found for <id> in <dataset>")
                        /\ UNCHANGED << cursor, fc >>
                   [] res = "hit" ->
                        /\ fc' = wholeCollection(p)
                        /\ cursor' = afterMatch(cursor, Len(nest))
                        /\ UNCHANGED << pc, status, error >>
    /\ UNCHANGED << endpoint, req, upstream, nest, encoderCalls >>
    /\ UNCHANGED whereVars

\* mapshaper writes out.kml, or the handler throws for want of it
convert_single_encode ==
    /\ endpoint = "convert_single"
    /\ pc = "resolving"
    /\ cursor > Len(nest)
    /\ fc # NoFC
    /\ encoderCalls' = encoderCalls + 1
    /\ \E ok \in BOOLEAN :
          IF ok THEN respond(200, "") ELSE respond(500, "Conversion failed")
    /\ UNCHANGED << endpoint, req, upstream, nest, cursor, probes, fc >>
    /\ UNCHANGED whereVars

\* the same handler with the KML taken from mapshaper's stdout
convert_stdout_read ==
    /\ endpoint = "convert_stdout"
    /\ pc = "received"
    /\ IF req.assetId = << >> \/ req.dataset = ""
       THEN respond(400, "Missing assetId or dataset")
       ELSE IF ~truthy(endpoint, req.dataset)
            THEN respond(400, "Unsupported dataset '...'")
            ELSE /\ pc' = "resolving"
                 /\ UNCHANGED << status, error >>
    /\ UNCHANGED << endpoint, req, upstream, nest, cursor, probes, fc, encoderCalls >>
    /\ UNCHANGED whereVars

convert_stdout_probe ==
    /\ endpoint = "convert_stdout"
    /\ pc = "resolving"
    /\ cursor <= Len(nest)
    /\ LET p == nest[cursor]
           res == fetchArcgisAsGeoJSON(p)
       IN
              /\ probes' = Append(probes, issued(p, res))
              /\ CASE res = "error" ->
                        /\ respond(500, "Conversion failed")
                        /\ UNCHANGED << cursor, fc >>
                   [] res = "empty" ->
                        /\ respond(404, "No feature found for <id> in <dataset>")
                        /\ UNCHANGED << cursor, fc >>
                   [] res = "hit" ->
                        /\ fc' = wholeCollection(p)
                        /\ cursor' = afterMatch(cursor, Len(nest))
                        /\ UNCHANGED << pc, status, error >>
    /\ UNCHANGED << endpoint, req, upstream, nest, encoderCalls >>
    /\ UNCHANGED whereVars

\* Buffer.from(out["stdout"]) throws when mapshaper wrote nothing
convert_stdout_encode ==
    /\ endpoint = "convert_stdout"
    /\ pc = "resolving"
    /\ cursor > Len(nest)
    /\ fc # NoFC
    /\ encoderCalls' = encoderCalls + 1
    /\ \E ok \in BOOLEAN :
          IF ok THEN respond(200, "") ELSE respond(500, "Conversion failed")
    /\ UNCHANGED << endpoint, req, upstream, nest, cursor, probes, fc >>
    /\ UNCHANGED whereVars

----------------------------------------------------------------------------
(* /locate taking geojson or geojsonUrl *)

\* for a name the registry inherits cfg.idFields is undefined and buildWhere
\* throws into the catch
locate_geojson_read ==
    /\ endpoint = "locate_geojson"
    /\ pc = "received"
    /\ IF req.geojson # ""
       THEN takeGeojson("Locate failed")
       ELSE /\ UNCHANGED fc
            /\ IF ~truthy(endpoint, req.dataset)
               THEN respond(400, "Unknown dataset")
               ELSE IF req.assetId = << >>
                    THEN respond(400, "assetId is required")
                    ELSE IF req.dataset \in ObjectPrototype
                         THEN respond(500, "Locate failed")
                         ELSE /\ pc' = "resolving"
                              /\ UNCHANGED << status, error >>
    /\ UNCHANGED << endpoint, req, upstream, nest, cursor, probes, encoderCalls >>
    /\ UNCHANGED whereVars

locate_geojson_probe ==
    /\ endpoint = "locate_geojson"
    /\ pc = "resolving"
    /\ cursor <= Len(nest)
    /\ LET p == nest[cursor]
           res == fetchArcgisAsGeoJSON(p)
       IN
              /\ probes' = Append(probes, issued(p, res))
              /\ CASE p.pass = "url" -> fetchGeojsonUrl(res, "Locate failed")
                   [] p.pass # "url" /\ res = "error" ->
                        /\ respond(500, "Locate failed")
                        /\ UNCHANGED << cursor, fc >>
                   [] p.pass # "url" /\ res = "empty" ->
                        /\ respond(404, "No feature found")
                        /\ UNCHANGED << cursor, fc >>
                   [] p.pass # "url" /\ res = "hit" ->
                        /\ fc' = wholeCollection(p)
                        /\ cursor' = afterMatch(cursor, Len(nest))
                        /\ UNCHANGED << pc, status, error >>
    /\ UNCHANGED << endpoint, req, upstream, nest, encoderCalls >>
    /\ UNCHANGED whereVars

\* centroid, bounds and link are sent, null where none can be computed
locate_geojson_centroid ==
    /\ endpoint = "locate_geojson"
    /\ pc = "resolving"
    /\ cursor > Len(nest)
    /\ fc # NoFC
    /\ respond(200, "")
    /\ UNCHANGED << endpoint, req, upstream, nest, cursor, probes, fc, encoderCalls >>
    /\ UNCHANGED whereVars

----------------------------------------------------------------------------
(* /locate of the first generation: one id field, one equality query *)

locate_single_read ==
    /\ endpoint = "locate_single"
    /\ pc = "received"
    /\ IF req.assetId = << >> \/ req.dataset = ""
       THEN respond(400, "Missing assetId or dataset")
       ELSE IF ~truthy(endpoint, req.dataset)
            THEN respond(400, "Unsupported dataset '...'")
            ELSE /\ pc' = "resolving"
                 /\ UNCHANGED << status, error >>
    /\ UNCHANGED << endpoint, req, upstream, nest, cursor, probes, fc, encoderCalls >>
    /\ UNCHANGED whereVars

locate_single_probe ==
    /\ endpoint = "locate_single"
    /\ pc = "resolving"
    /\ cursor <= Len(nest)
    /\ LET p == nest[cursor]
           res == fetchArcgisAsGeoJSON(p)
       IN
              /\ probes' = Append(probes, issued(p, res))
              /\ CASE res = "error" ->
                        /\ respond(500, "Locate failed")
                        /\ UNCHANGED << cursor, fc >>
                   [] res = "empty" ->
                        /\ respond(404, "No feature found for <id> in <dataset>")
                        /\ UNCHANGED << cursor, fc >>
                   [] res = "hit" ->
                        /\ fc' = firstFeature(p)
                        /\ cursor' = afterMatch(cursor, Len(nest))
                        /\ UNCHANGED << pc, status, error >>
    /\ UNCHANGED << endpoint, req, upstream, nest, encoderCalls >>
    /\ UNCHANGED whereVars

\* centroidOfGeometry(data.features[0].geometry)
locate_single_centroid ==
    /\ endpoint = "locate_single"
    /\ pc = "resolving"
    /\ cursor > Len(nest)
    /\ fc # NoFC
    /\ IF fc.geometry = "usable"
       THEN respond(200, "")
       ELSE respond(500, "Could not compute centroid")
    /\ UNCHANGED << endpoint, req, upstream, nest, cursor, probes, fc, encoderCalls >>
    /\ UNCHANGED whereVars

----------------------------------------------------------------------------
(* /locate with the exact predicate only *)

\* for a name the registry inherits ds.idFields is undefined and whereFrom
\* throws into the catch
locate_exact_read ==
    /\ endpoint = "locate_exact"
    /\ pc = "received"
    /\ IF req.assetId = << >> \/ req.dataset = ""
       THEN respond(400, "Missing assetId or dataset")
       ELSE IF ~truthy(endpoint, req.dataset)
            THEN respond(400, "Unknown dataset")
            ELSE IF req.dataset \in ObjectPrototype
                 THEN respond(500, "fields is not iterable")
                 ELSE /\ pc' = "resolving"
                      /\ UNCHANGED << status, error >>
    /\ UNCHANGED << endpoint, req, upstream, nest, cursor, probes, fc, encoderCalls >>
    /\ UNCHANGED whereVars

\* one GET with the predicate of whereFrom; a failed GET is thrown into the
\* catch
locate_exact_probe ==
    /\ endpoint = "locate_exact"
    /\ pc = "resolving"
    /\ cursor <= Len(nest)
    /\ LET p == nest[cursor]
           res == fetchArcgisAsGeoJSON(p)
       IN
              /\ probes' = Append(probes, issued(p, res))
              /\ CASE res = "error" ->
                        /\ respond(500, "Request failed")
                        /\ UNCHANGED << cursor, fc >>
                   [] res = "empty" ->
                        /\ respond(404, "No feature found")
                        /\ UNCHANGED << cursor, fc >>
                   [] res = "hit" ->
                        /\ fc' = firstFeature(p)
                        /\ cursor' = afterMatch(cursor, Len(nest))
                        /\ UNCHANGED << pc, status, error >>
    /\ UNCHANGED << endpoint, req, upstream, nest, encoderCalls >>
    /\ UNCHANGED whereVars

\* the geometry of feats[0] translated, its centroid computed and sent
locate_exact_centroid ==
    /\ endpoint = "locate_exact"
    /\ pc = "resolving"
    /\ cursor > Len(nest)
    /\ fc # NoFC
    /\ IF fc.geometry = "usable"
       THEN respond(200, "")
       ELSE respond(500, "Unable to compute centroid")
    /\ UNCHANGED << endpoint, req, upstream, nest, cursor, probes, fc, encoderCalls >>
    /\ UNCHANGED whereVars

----------------------------------------------------------------------------
(* /locate over ds.layers: metadata, then one predicate per layer *)

\* for a name the registry inherits ds.type is not "single" and ds.layers is
\* not iterable
locate_meta_read ==
    /\ endpoint = "locate_meta"
    /\ pc = "received"
    /\ IF req.assetId = << >> \/ req.dataset = ""
       THEN respond(400, "Missing assetId or dataset")
       ELSE IF ~truthy(endpoint, req.dataset)
            THEN respond(400, "Unknown dataset")
            ELSE IF req.dataset \in ObjectPrototype
                 THEN respond(500, "Locate failed: ds.layers is not iterable")
                 ELSE /\ pc' = "resolving"
                      /\ UNCHANGED << status, error >>
    /\ UNCHANGED << endpoint, req, upstream, nest, cursor, probes, fc, encoderCalls >>
    /\ UNCHANGED whereVars

\* fetchLayerMeta and buildWhereClause: a failed GET is thrown into the
\* catch; a layer with none of the candidate id fields is passed over
\* without a query
locate_meta_fetchLayerMeta ==
    /\ endpoint = "locate_meta"
    /\ pc = "resolving"
    /\ cursor <= Len(nest)
    /\ nest[cursor].pass = "meta"
    /\ LET p == nest[cursor]
       IN  IF upstream[p.layer].down
           THEN /\ probes' = Append(probes, issued(p, "error"))
                /\ respond(500, "Locate failed: <err.message>")
                /\ UNCHANGED cursor
           ELSE /\ probes' = Append(probes, issued(p, "meta"))
                /\ cursor' = IF upstream[p.layer].noIdField
                             THEN cursor + 3 ELSE cursor + 1
                /\ UNCHANGED << pc, status, error >>
    /\ UNCHANGED << endpoint, req, upstream, nest, fc, encoderCalls >>
    /\ UNCHANGED whereVars

\* fetchFeature, the query with f=geojson: features[0] if there is one; a
\* failed GET is swallowed (catch { /* ignore; fallback */ })
locate_meta_fetchFeature ==
    /\ endpoint = "locate_meta"
    /\ pc = "resolving"
    /\ cursor <= Len(nest)
    /\ nest[cursor].pass = "any"
    /\ LET p == nest[cursor]
           res == fetchArcgisAsGeoJSON(p)
       IN
              /\ probes' = Append(probes, issued(p, res))
              /\ IF res = "hit"
                 THEN /\ fc' = firstFeature(p)
                      /\ cursor' = afterMatch(cursor, Len(nest))
                 ELSE /\ cursor' = cursor + 1
                      /\ UNCHANGED fc
    /\ UNCHANGED << endpoint, req, upstream, nest, pc, status, error, encoderCalls >>
    /\ UNCHANGED whereVars

\* fetchFeature, the query with f=json: a failed GET is thrown into the
\* catch, the first feature is returned with the centroid as its geometry
locate_meta_fetchFeatureEsri ==
    /\ endpoint = "locate_meta"
    /\ pc = "resolving"
    /\ cursor <= Len(nest)
    /\ nest[cursor].pass = "esri"
    /\ LET p == nest[cursor]
           res == fetchArcgisAsGeoJSON(p)
       IN
              /\ probes' = Append(probes, issued(p, res))
              /\ CASE res = "error" ->
                        /\ respond(500, "Locate failed: <err.message>")
                        /\ UNCHANGED << cursor, fc >>
                   [] res = "hit" ->
                        /\ fc' = firstFeature(p)
                        /\ cursor' = afterMatch(cursor, Len(nest))
                        /\ UNCHANGED << pc, status, error >>
                   [] res = "empty" ->
                        /\ cursor' = cursor + 1
                        /\ UNCHANGED << fc, pc, status, error >>
    /\ UNCHANGED << endpoint, req, upstream, nest, encoderCalls >>
    /\ UNCHANGED whereVars

\* if (!result) 404
locate_meta_notFound ==
    /\ endpoint = "locate_meta"
    /\ pc = "resolving"
    /\ cursor > Len(nest)
    /\ fc = NoFC
    /\ respond(404, "No feature found for '<id>' in <dataset>.")
    /\ UNCHANGED << endpoint, req, upstream, nest, cursor, probes, fc, encoderCalls >>
    /\ UNCHANGED whereVars

\* lat and lng of the feature's coordinates are sent, undefined if it has none
locate_meta_respond ==
    /\ endpoint = "locate_meta"
    /\ pc = "resolving"
    /\ cursor > Len(nest)
    /\ fc # NoFC
    /\ respond(200, "")
    /\ UNCHANGED << endpoint, req, upstream, nest, cursor, probes, fc, encoderCalls >>
    /\ UNCHANGED whereVars

----------------------------------------------------------------------------
(* /map-pdf over basemap tiles *)

\* what the GET of the feature throws when it fails: fetch rejects, or the
\* status is not ok
queryFailed(p) ==
    IF upstream[p.layer].timedOut THEN "fetch failed"
    ELSE "ArcGIS query failed (<status>)"

\* fetchFeatureGeoJSON throws for a key the registry lacks
mapPdf_tiles_read ==
    /\ endpoint = "mapPdf_tiles"
    /\ pc = "received"
    /\ IF req.assetId = << >> \/ req.dataset = ""
       THEN respond(400, "Missing assetId or dataset")
       ELSE IF ~truthy(endpoint, req.dataset)
            THEN respond(500, "Unknown dataset '...'")
            ELSE /\ pc' = "resolving"
                 /\ UNCHANGED << status, error >>
    /\ UNCHANGED << endpoint, req, upstream, nest, cursor, probes, fc, encoderCalls >>
    /\ UNCHANGED whereVars

\* fetchFeatureGeoJSON: fetch without a timeout; every failure is thrown
\* into the catch, an answer without features as well.  For a name the
\* registry inherits the URL begins with "undefined/query" and fetch rejects
\* it unsent
mapPdf_tiles_fetchFeatureGeoJSON ==
    /\ endpoint = "mapPdf_tiles"
    /\ pc = "resolving"
    /\ cursor = 1
    /\ IF req.dataset \in ObjectPrototype
       THEN /\ respond(500, "Failed to parse URL from <url>")
            /\ UNCHANGED << cursor, fc, probes >>
       ELSE
         /\ cursor <= Len(nest)
         /\ LET p == nest[cursor]
                res == fetchArcgisAsGeoJSON(p)
            IN
              /\ probes' = Append(probes, issued(p, res))
              /\ CASE res = "error" ->
                        /\ respond(500, queryFailed(p))
                        /\ UNCHANGED << cursor, fc >>
                   [] res = "empty" ->
                        /\ respond(500, "No feature found for <id> in <dataset>")
                        /\ UNCHANGED << cursor, fc >>
                   [] res = "hit" ->
                        /\ fc' = firstFeature(p)
                        /\ cursor' = cursor + 1
                        /\ UNCHANGED << pc, status, error >>
    /\ UNCHANGED << endpoint, req, upstream, nest, encoderCalls >>
    /\ UNCHANGED whereVars

\* the tiles fetched so far
tilesFetched == Cardinality({i \in 1..Len(probes) : probes[i].pass = "tile"})

\* renderBasemapAndOverlay: no bounding box without geometry; else the tiles
\* of the mosaic are fetched one after the other, each GET awaited, and a
\* tile that fails is drawn blank
mapPdf_tiles_render ==
    /\ endpoint = "mapPdf_tiles"
    /\ pc = "resolving"
    /\ cursor = 2
    /\ fc # NoFC
    /\ tilesFetched < MaxTiles
    /\ IF fc.geometry # "usable"
       THEN /\ respond(500, "Unable to compute bounding box.")
            /\ UNCHANGED probes
       ELSE /\ probes' = Append(probes,
                   issued(nest[cursor],
                          IF upstream[basemap].down THEN "error" ELSE "tile"))
            /\ UNCHANGED << pc, status, error >>
    /\ UNCHANGED << endpoint, req, upstream, nest, cursor, fc, encoderCalls >>
    /\ UNCHANGED whereVars

\* after the last tile of the mosaic: the PDF is composed and sent, and what
\* the PDF library throws is answered by the catch
mapPdf_tiles_respond ==
    /\ endpoint = "mapPdf_tiles"
    /\ pc = "resolving"
    /\ cursor = 2
    /\ fc # NoFC
    /\ tilesFetched >= 1
    /\ \E ok \in BOOLEAN :
          IF ok THEN respond(200, "") ELSE respond(500, "<err.message>")
    /\ UNCHANGED << endpoint, req, upstream, nest, cursor, probes, fc, encoderCalls >>
    /\ UNCHANGED whereVars

----------------------------------------------------------------------------
(* /map-pdf over one static basemap image *)

\* the module of this handler does not load: drawNorthArrow writes
\* `end: { x, y + size }`, the import throws SyntaxError and no handler is
\* there to answer the request or to query a layer
mapPdf_static_import ==
    /\ endpoint = "mapPdf_static"
    /\ pc = "received"
    /\ pc' = "not loaded"
    /\ UNCHANGED << endpoint, req, upstream, nest, cursor, probes, fc, status,
                    error, encoderCalls >>
    /\ UNCHANGED whereVars

----------------------------------------------------------------------------
Next ==
    \/ convert_passes_read
    \/ convert_passes_probe
    \/ convert_passes_notFound
    \/ convert_passes_encode
    \/ convert_montgomery_read
    \/ convert_montgomery_probe
    \/ convert_montgomery_geocode
    \/ convert_montgomery_notFound
    \/ convert_montgomery_encode
    \/ convert_fields_read
    \/ convert_fields_probe
    \/ convert_fields_notFound
    \/ convert_fields_encode
    \/ convert_fields2_read
    \/ convert_fields2_probe
    \/ convert_fields2_notFound
    \/ convert_fields2_encode
    \/ convert_url_read
    \/ convert_url_probe
    \/ convert_url_encode
    \/ convert_any_read
    \/ convert_any_probe
    \/ convert_any_notFound
    \/ convert_any_encode
    \/ convert_or_read
    \/ convert_or_probe
    \/ convert_or_encode
    \/ locate_read
    \/ locate_probe
    \/ locate_notFound
    \/ locate_centroid
    \/ convert_geojson_read
    \/ convert_geojson_probe
    \/ convert_geojson_encode
    \/ convert_single_read
    \/ convert_single_probe
    \/ convert_single_encode
    \/ convert_stdout_read
    \/ convert_stdout_probe
    \/ convert_stdout_encode
    \/ locate_geojson_read
    \/ locate_geojson_probe
    \/ locate_geojson_centroid
    \/ locate_single_read
    \/ locate_single_probe
    \/ locate_single_centroid
    \/ locate_exact_read
    \/ locate_exact_probe
    \/ locate_exact_centroid
    \/ locate_meta_read
    \/ locate_meta_fetchLayerMeta
    \/ locate_meta_fetchFeature
    \/ locate_meta_fetchFeatureEsri
    \/ locate_meta_notFound
    \/ locate_meta_respond
    \/ mapPdf_tiles_read
    \/ mapPdf_tiles_fetchFeatureGeoJSON
    \/ mapPdf_tiles_render
    \/ mapPdf_tiles_respond
    \/ mapPdf_static_import

Spec == Init /\ [][Next]_vars

----------------------------------------------------------------------------
(* The ID variants of the TMDL family *)

isLetter(c) == c \in Upper \cup Lower

\* s with every character c removed: s.replace(/-/g, ""), s.replace(/\s+/g, "")
RECURSIVE removeAll(_, _)
removeAll(s, c) ==
    IF s = << >> THEN << >>
    ELSE IF Head(s) = c THEN removeAll(Tail(s), c)
    ELSE << Head(s) >> \o removeAll(Tail(s), c)

\* the number group of /^(\d+)\s*-?\s*$/ in a text that matches it
numberOf(s) ==
    LET a == trimEnd(s)
    IN  IF a # << >> /\ a[Len(a)] = "-"
        THEN trimEnd(SubSeq(a, 1, Len(a) - 1)) ELSE a

\* s.replace(/(\d+)([A-Za-z]+)/, '$1' + sep + '$2'): the first place where a
\* digit is followed by a letter gets the separator, nothing else changes
insertSeparator(s, sep) ==
    LET at == {k \in 1..(Len(s) - 1) : s[k] \in Digits /\ isLetter(s[k + 1])}
    IN  IF at = {} THEN s
        ELSE LET k == CHOOSE k \in at : \A j \in at : k <= j
             IN  SubSeq(s, 1, k) \o << sep >> \o SubSeq(s, k + 1, Len(s))

\* tmdlVariants with the spaced form left out
tmdlVariants_noSpaced(assetId) ==
    LET s == toUpperCase(trim(assetId))
        n == Len(s)
    IN  IF /\ n >= 3
           /\ s[n - 1] \in Upper /\ s[n] \in Upper
           /\ numberThenSeparator(SubSeq(s, 1, n - 2))
        THEN LET num == numberOf(SubSeq(s, 1, n - 2))
                 suf == SubSeq(s, n - 1, n)
             IN  << num \o suf, num \o <<"-">> \o suf >>
        ELSE << s, removeAll(s, "-"), removeAll(s, " "),
                insertSeparator(s, "-"), insertSeparator(s, " ") >>

\* tmdlVariants: the three spellings of number and two-letter suffix, or
\* the five fallbacks
tmdlVariants(assetId) ==
    LET s == toUpperCase(trim(assetId))
        n == Len(s)
    IN  IF /\ n >= 3
           /\ s[n - 1] \in Upper /\ s[n] \in Upper
           /\ numberThenSeparator(SubSeq(s, 1, n - 2))
        THEN LET num == numberOf(SubSeq(s, 1, n - 2))
                 suf == SubSeq(s, n - 1, n)
             IN  << num \o suf, num \o <<"-">> \o suf, num \o <<" ">> \o suf >>
        ELSE << s, removeAll(s, "-"), removeAll(s, " "),
                insertSeparator(s, "-"), insertSeparator(s, " ") >>

----------------------------------------------------------------------------
(* The where clause of one upstream query, as each builder puts it into the
   URL.  `sent' is the text of the where parameter inside the URL; the layer
   sees urlDecode(sent). *)

\* the characters asset IDs are drawn from: a letter, digits that spell the
\* escape of a blank, a quote, a blank and a percent sign
IdChars == {"A", "2", "0", "'", " ", "%"}

RECURSIVE textsUpTo(_)
textsUpTo(n) ==
    IF n = 0 THEN { << >> }
    ELSE LET shorter == textsUpTo(n - 1)
         IN  shorter \cup {Append(t, c) : t \in {u \in shorter : Len(u) = n - 1},
                                          c \in IdChars}

\* the non-empty asset IDs given to the builders
Ids == textsUpTo(MaxIdLen) \ { << >> }

\* the id field of the layer queried, here LOD_ID
idField == <<"L","O","D","_","I","D">>

\* each character of s replaced by f of it
RECURSIVE mapText(_, _)
mapText(f(_), s) ==
    IF s = << >> THEN << >> ELSE f(Head(s)) \o mapText(f, Tail(s))

\* String(v).replace(/'/g, "''")
esc(v) == mapText(LAMBDA c : IF c = "'" THEN <<"'", "'">> ELSE << c >>, v)

\* encodeURIComponent: letters, digits and - _ . ! ~ * ' ( ) stay
encodeURIComponent(s) ==
    mapText(LAMBDA c : CASE c = " " -> <<"%","2","0">>
                         [] c = "%" -> <<"%","2","5">>
                         [] c = "=" -> <<"%","3","D">>
                         [] OTHER   -> << c >>, s)

\* URLSearchParams.toString of one value: letters, digits and * - . _ stay,
\* a blank becomes +
formEncode(s) ==
    mapText(LAMBDA c : CASE c = " " -> <<"+">>
                         [] c = "%" -> <<"%","2","5">>
                         [] c = "=" -> <<"%","3","D">>
                         [] c = "'" -> <<"%","2","7">>
                         [] c = "(" -> <<"%","2","8">>
                         [] c = ")" -> <<"%","2","9">>
                         [] OTHER   -> << c >>, s)

\* the character a two-digit escape stands for, "" if the model has none
unescapeHex(h) ==
    CASE h = <<"2","0">> -> " "
      [] h = <<"2","5">> -> "%"
      [] h = <<"2","7">> -> "'"
      [] h = <<"2","8">> -> "("
      [] h = <<"2","9">> -> ")"
      [] h = <<"3","D">> -> "="
      [] OTHER -> ""

\* what the layer reads out of the query string: + is a blank, %XX the
\* character escaped, one round of decoding
RECURSIVE urlDecode(_)
urlDecode(s) ==
    IF s = << >> THEN << >>
    ELSE IF Head(s) = "+" THEN <<" ">> \o urlDecode(Tail(s))
    ELSE IF Head(s) = "%" /\ Len(s) >= 3 /\ unescapeHex(SubSeq(s, 2, 3)) # ""
         THEN << unescapeHex(SubSeq(s, 2, 3)) >> \o urlDecode(SubSeq(s, 4, Len(s)))
         ELSE << Head(s) >> \o urlDecode(Tail(s))

\* one term of the exact predicate: UPPER(f) = UPPER('v')
exactTerm(f, v) ==
    <<"U","P","P","E","R","(">> \o f \o <<")"," ","="," ","U","P","P","E","R","(","'">>
        \o esc(v) \o <<"'",")">>

\* ors.join(sep)
RECURSIVE join(_, _)
join(ts, sep) ==
    IF ts = << >> THEN << >>
    ELSE IF Len(ts) = 1 THEN ts[1]
    ELSE ts[1] \o sep \o join(Tail(ts), sep)

\* the terms of the exact predicate with the loop over the variants cut short
exactTerms_firstVariant(fields, vs) ==
    [i \in 1..Len(fields) |-> exactTerm(fields[i], vs[1])]

\* for (const f of fields) for (const v of vals) ors.push(...)
exactTerms(fields, vs) ==
    [i \in 1..(Len(fields) * Len(vs)) |->
        exactTerm(fields[((i - 1) \div Len(vs)) + 1], vs[((i - 1) % Len(vs)) + 1])]

\* const vals = useVariants ? tmdlVariants(value) : [String(value)]
valsOf(value, useVariants) ==
    IF useVariants THEN tmdlVariants(value) ELSE << value >>

\* buildWhereExact: the terms joined with OR
buildWhereExact(fields, value, useVariants) ==
    join(exactTerms(fields, valsOf(value, useVariants)), <<" ","O","R"," ">>)

\* fetchArcgisAsGeoJSON: where=${encodeURIComponent(where)}
sent_fetchArcgisAsGeoJSON(value) ==
    encodeURIComponent(buildWhereExact(<< idField >>, value, FALSE))

\* arcgisGeojsonUrl: encodeURIComponent(`${field}='${value}'`)
arcgisGeojsonUrl(f, value) ==
    encodeURIComponent(f \o <<"=","'">> \o value \o <<"'">>)

\* buildQueryUrl of the URL-per-key handler: where=FIELD%3D'${enc(assetId)}'
buildQueryUrl(f, assetId) ==
    f \o <<"%","3","D","'">> \o encodeURIComponent(assetId) \o <<"'">>

\* buildUrl: the where with the quotes doubled, inside URLSearchParams
buildUrl(f, value) ==
    formEncode(f \o <<"=","'">> \o esc(value) \o <<"'">>)

\* bulk.js: where(field, val)
where(f, val) == f \o <<"=","'">> \o esc(val) \o <<"'">>

\* bulk.js fetchFeature: where=${encodeURIComponent(where(idField, assetId))}
fetchFeature(f, assetId) == encodeURIComponent(where(f, assetId))

\* bulk.js qUrl: the ID encoded, its quotes doubled, inside URLSearchParams
qUrl(f, idVal) ==
    formEncode(f \o <<"=","'">> \o esc(encodeURIComponent(idVal)) \o <<"'">>)

\* bulk.js buildQueryUrl of the last generation: the same text as qUrl
bulkBuildQueryUrl(f, idVal) ==
    formEncode(f \o <<"=","'">> \o esc(encodeURIComponent(idVal)) \o <<"'">>)

\* no request is followed while the builders are exercised
idle ==
    /\ endpoint = "none"
    /\ req = [assetId |-> << >>, dataset |-> "", geojson |-> ""]
    /\ nest = << >>
    /\ upstream = [l \in Layers |-> [kind |-> "none", field |-> 1,
                                      geometry |-> "usable", down |-> FALSE,
                                      timedOut |-> FALSE, noGeojson |-> FALSE,
                                      noIdField |-> FALSE]]
    /\ pc = "idle"
    /\ cursor = 1
    /\ probes = << >>
    /\ fc = NoFC
    /\ status = 0
    /\ error = ""
    /\ encoderCalls = 0

InitWhere ==
    /\ idle
    /\ id \in Ids
    /\ builder = ""
    /\ sent = << >>
    /\ vals = << >>
    /\ forKey = ""
    /\ native = << >>
    /\ geom = << >>
    /\ registry = << >>
    /\ aliases = << >>
    /\ lookup = << >>
    /\ resolved = << >>
    /\ bulkIdle

\* part_000: the where of the exact pass, encoded into the query string
do_fetchArcgisAsGeoJSON ==
    /\ builder = ""
    /\ builder' = "fetchArcgisAsGeoJSON"
    /\ sent' = sent_fetchArcgisAsGeoJSON(id)
    /\ UNCHANGED << id, variantVars, geometryVars, registryVars >>
    /\ UNCHANGED lookupVars
    /\ UNCHANGED bulkVars

\* api/convert.js, first generation: one id field, one query
do_arcgisGeojsonUrl ==
    /\ builder = ""
    /\ builder' = "arcgisGeojsonUrl"
    /\ sent' = arcgisGeojsonUrl(idField, id)
    /\ UNCHANGED << id, variantVars, geometryVars, registryVars >>
    /\ UNCHANGED lookupVars
    /\ UNCHANGED bulkVars

\* the URL-per-key handler
do_buildQueryUrl ==
    /\ builder = ""
    /\ builder' = "buildQueryUrl"
    /\ sent' = buildQueryUrl(idField, id)
    /\ UNCHANGED << id, variantVars, geometryVars, registryVars >>
    /\ UNCHANGED lookupVars
    /\ UNCHANGED bulkVars

\* the per-field handler that throws for an unknown dataset
do_buildUrl ==
    /\ builder = ""
    /\ builder' = "buildUrl"
    /\ sent' = buildUrl(idField, id)
    /\ UNCHANGED << id, variantVars, geometryVars, registryVars >>
    /\ UNCHANGED lookupVars
    /\ UNCHANGED bulkVars

\* api/bulk.js, first generation
do_fetchFeature ==
    /\ builder = ""
    /\ builder' = "fetchFeature"
    /\ sent' = fetchFeature(idField, id)
    /\ UNCHANGED << id, variantVars, geometryVars, registryVars >>
    /\ UNCHANGED lookupVars
    /\ UNCHANGED bulkVars

\* api/bulk.js, fetchAnyTMDL and fetchFeatures
do_qUrl ==
    /\ builder = ""
    /\ builder' = "qUrl"
    /\ sent' = qUrl(idField, id)
    /\ UNCHANGED << id, variantVars, geometryVars, registryVars >>
    /\ UNCHANGED lookupVars
    /\ UNCHANGED bulkVars

\* api/bulk.js, last generation
do_bulkBuildQueryUrl ==
    /\ builder = ""
    /\ builder' = "bulkBuildQueryUrl"
    /\ sent' = bulkBuildQueryUrl(idField, id)
    /\ UNCHANGED << id, variantVars, geometryVars, registryVars >>
    /\ UNCHANGED lookupVars
    /\ UNCHANGED bulkVars

NextWhere ==
    \/ do_fetchArcgisAsGeoJSON
    \/ do_arcgisGeojsonUrl
    \/ do_buildQueryUrl
    \/ do_buildUrl
    \/ do_fetchFeature
    \/ do_qUrl
    \/ do_bulkBuildQueryUrl

SpecWhere == InitWhere /\ [][NextWhere]_vars

\* the where clause the layer evaluates
received == urlDecode(sent)

\* position of the first quote of w, 0 if it has none
firstQuote(w) ==
    IF \E i \in 1..Len(w) : w[i] = "'"
    THEN CHOOSE i \in 1..Len(w) : w[i] = "'" /\ \A j \in 1..(i - 1) : w[j] # "'"
    ELSE 0

\* position of the quote that closes the literal whose text begins at i:
\* two quotes in a row are one quote of the value; 0 if nothing closes it
RECURSIVE closingQuote(_, _)
closingQuote(w, i) ==
    IF i > Len(w) THEN 0
    ELSE IF w[i] # "'" THEN closingQuote(w, i + 1)
    ELSE IF i < Len(w) /\ w[i + 1] = "'" THEN closingQuote(w, i + 2)
    ELSE i

\* the value of a literal text: each doubled quote is one quote
RECURSIVE literalValue(_)
literalValue(t) ==
    IF t = << >> THEN << >>
    ELSE IF Len(t) >= 2 /\ t[1] = "'" /\ t[2] = "'"
         THEN <<"'">> \o literalValue(SubSeq(t, 3, Len(t)))
         ELSE << Head(t) >> \o literalValue(Tail(t))

quotesIn(t) == Cardinality({i \in 1..Len(t) : t[i] = "'"})

\* w has one string literal, closed, nothing quoted after it, and the value
\* of the literal has the quotes of v
quotedProperly(w, v) ==
    LET o == firstQuote(w)
        c == IF o = 0 THEN 0 ELSE closingQuote(w, o + 1)
    IN  /\ o > 0
        /\ c > 0
        /\ \A k \in (c + 1)..Len(w) : w[k] # "'"
        /\ quotesIn(literalValue(SubSeq(w, o + 1, c - 1))) = quotesIn(v)

\* C9 as stated: whatever builder embeds the ID, each quote of the ID is
\* doubled and the literal the layer reads is closed where the ID ends.
C9_QuotesDoubled ==
    builder # "" => quotedProperly(received, id)

\* C10 as stated: the where clause the layer reads from the bulk builders is
\* the field, an equals sign and the literal of the ID with its quotes
\* doubled, the ID having been percent-encoded once.
C10_WhereAfterDecoding ==
    builder \in {"fetchFeature", "qUrl", "bulkBuildQueryUrl"}
        => received = idField \o <<"=","'">> \o esc(id) \o <<"'">>

----------------------------------------------------------------------------
(* The variants and the exact predicate, exercised on their own *)

\* the characters raw asset IDs are drawn from
RawChars == {"1", "-", " ", "a", "B"}

RECURSIVE rawTextsUpTo(_)
rawTextsUpTo(n) ==
    IF n = 0 THEN { << >> }
    ELSE LET shorter == rawTextsUpTo(n - 1)
         IN  shorter \cup {Append(t, c) : t \in {u \in shorter : Len(u) = n - 1},
                                          c \in RawChars}

\* the asset IDs of a request body: non-empty texts, and two IDs by name
RawIds == (rawTextsUpTo(MaxRawLen) \ { << >> })
          \cup { <<"A","B","1","2">>, <<"1","2","3","A","B">> }

\* idFields of the Fairfax layer, of the landscape layer and of a TMDL layer
fairfaxFields == << <<"F","A","C","I","L","I","T","Y","_","I","D">> >>
landscapeFields == << <<"L","O","D","_","I","D">> >>
\* idFields of the six TMDL entries of the registry the two-pass handler
\* reads: eight fields, and SWM_FAC_NO before them for structures and
\* retrofits
tmdlFields ==
    << <<"A","S","S","E","T","_","I","D">>,
       <<"S","T","R","U","_","I","D">>,
       <<"N","A","M","E">>,
       <<"P","R","O","J","E","C","T","_","I","D">>,
       <<"S","T","R","U","C","T","U","R","E","_","I","D">>,
       <<"S","T","R","U","C","T","_","I","D">>,
       <<"F","A","C","I","L","I","T","Y","_","I","D">>,
       <<"F","A","C","I","L","I","T","Y","I","D">> >>
structureFields == << <<"S","W","M","_","F","A","C","_","N","O">> >> \o tmdlFields

\* DATASETS[key].idFields
idFieldsOf(key) ==
    CASE key = "fairfax_bmps" -> fairfaxFields
      [] key = "mdsha_landscape" -> landscapeFields
      [] key \in {"mdsha_tmdl_structures", "mdsha_tmdl_retrofits"} -> structureFields
      [] OTHER -> tmdlFields

InitVariants ==
    /\ idle
    /\ id \in RawIds
    /\ builder = ""
    /\ sent = << >>
    /\ vals = << >>
    /\ forKey = ""
    /\ native = << >>
    /\ geom = << >>
    /\ registry = << >>
    /\ aliases = << >>
    /\ lookup = << >>
    /\ resolved = << >>
    /\ bulkIdle

\* the variants of an ID of the TMDL family
do_tmdlVariants ==
    /\ builder = ""
    /\ builder' = "tmdlVariants"
    /\ vals' = tmdlVariants(id)
    /\ UNCHANGED << id, sent, forKey, geometryVars, registryVars >>
    /\ UNCHANGED lookupVars
    /\ UNCHANGED bulkVars

\* the exact predicate of a TMDL layer: key.startsWith("mdsha_tmdl_")
do_buildWhereExact_tmdl ==
    /\ builder = ""
    /\ builder' = "buildWhereExact_tmdl"
    /\ \E key \in Range(TMDL_ANY) :
          /\ forKey' = key
          /\ sent' = buildWhereExact(idFieldsOf(key), id, TRUE)
    /\ vals' = valsOf(id, TRUE)
    /\ UNCHANGED << id, geometryVars, registryVars >>
    /\ UNCHANGED lookupVars
    /\ UNCHANGED bulkVars

\* the exact predicate of any other layer: the assetId of the body as read
do_buildWhereExact_plain ==
    /\ builder = ""
    /\ builder' = "buildWhereExact_plain"
    /\ vals' = valsOf(id, FALSE)
    /\ \E key \in {"fairfax_bmps", "mdsha_landscape"} :
          /\ forKey' = key
          /\ sent' = buildWhereExact(idFieldsOf(key), id, FALSE)
    /\ UNCHANGED << id, geometryVars, registryVars >>
    /\ UNCHANGED lookupVars
    /\ UNCHANGED bulkVars

NextVariants ==
    \/ do_tmdlVariants
    \/ do_buildWhereExact_tmdl
    \/ do_buildWhereExact_plain

SpecVariants == InitVariants /\ [][NextVariants]_vars

----------------------------------------------------------------------------
(* Properties of the lookup *)

\* the request is served over the grouped dataset mdsha_tmdl_any
grouped == targets(datasetKey_of(req)) = TMDL_ANY

\* the layers of the loop nest, without repetition
nestLayers == {nest[i].layer : i \in 1..Len(nest)}

\* position of a key in the ordered layer list of the grouped dataset, 0 if
\* it is none of them
positionOf(key) ==
    IF \E k \in 1..Len(TMDL_ANY) : TMDL_ANY[k] = key
    THEN CHOOSE k \in 1..Len(TMDL_ANY) : TMDL_ANY[k] = key
    ELSE 0

\* C1: over the grouped dataset, an exact-pass probe that returned a feature
\* is the last upstream query of the request: no query of a later layer and
\* no further pass follows it.
C1_ExactMatchEndsResolution ==
    grouped =>
        \A i \in 1..Len(probes) :
            (probes[i].pass = "exact" /\ probes[i].result = "hit")
                => i = Len(probes)

\* a request over the grouped dataset answered after the exact probe of the
\* second layer returned a feature, four layers left unqueried
C1_Witness ==
    /\ grouped
    /\ endpoint = "convert_passes"
    /\ pc = "responded"
    /\ status = 200
    /\ Len(probes) = 2
    /\ probes[2].layer = TMDL_ANY[2]
    /\ probes[2].pass = "exact"
    /\ probes[2].result = "hit"

\* C2 as stated: over the grouped dataset no probe of layer k+1 is issued
\* before the fuzzy probe of layer k has completed with zero features.
C2_Original ==
    grouped =>
        \A i \in 1..Len(probes) :
            positionOf(probes[i].layer) > 1 =>
                \E j \in 1..(i - 1) :
                    /\ probes[j].layer = TMDL_ANY[positionOf(probes[i].layer) - 1]
                    /\ probes[j].pass = "like"
                    /\ probes[j].result = "empty"

\* C2 amended: in /convert the exact pass runs over every candidate layer
\* first; a probe that evaluates LIKE terms (the fuzzy pass, or over a grouped
\* dataset a predicate that ORs them to the equality terms) is issued only
\* after the exact probe of every candidate layer has been issued and has
\* returned no feature.
C2_ExactPassBeforeFuzzyPass ==
    endpoint \in Converting =>
    \A i \in 1..Len(probes) :
        (probes[i].pass = "like" \/ (grouped /\ probes[i].pass = "any")) =>
            \A l \in nestLayers :
                \E j \in 1..(i - 1) :
                    /\ probes[j].layer = l
                    /\ probes[j].pass = "exact"
                    /\ probes[j].result # "hit"

\* the fuzzy pass over the grouped dataset has begun: six exact probes, then
\* the fuzzy probe of the first layer
C2_Witness ==
    /\ grouped
    /\ Len(probes) = Len(TMDL_ANY) + 1
    /\ probes[Len(probes)].pass = "like"
    /\ probes[Len(probes)].layer = TMDL_ANY[1]

\* the layer holds a feature whose id field equals the ID and the probe of
\* the handler returns it
offersExact(l) ==
    /\ upstream[l].kind \in {"exact", "both"}
    /\ ~(endpoint \in {"convert_passes", "convert_montgomery"}
            /\ upstream[l].geometry = "allNull")

\* C3: if a candidate layer of the dataset holds an exact match and no probe
\* failed, the feature /convert returns is a match of the exact pass, never
\* the fuzzy match of another layer.
C3_ExactMatchPreferred ==
    ( /\ endpoint \in Converting
      /\ fc # NoFC
      /\ \E l \in nestLayers \ {geojsonUrl} : offersExact(l)
      /\ \A i \in 1..Len(probes) : probes[i].result # "error" )
        => (fc.pass # "like" /\ "exact" \in fc.features)

\* the first layer holds a fuzzy match, the second the exact one, and the
\* lookup returned the feature of the second
C3_Witness ==
    /\ grouped
    /\ endpoint = "convert_passes"
    /\ upstream[TMDL_ANY[1]].kind = "fuzzy"
    /\ upstream[TMDL_ANY[2]].kind = "exact"
    /\ fc # NoFC
    /\ fc.layer = TMDL_ANY[2]
    /\ fc.pass = "exact"

\* C4 as stated: over the grouped dataset a probe that ended in an upstream
\* error does not abort the request while candidates are left to try.
C4_ErrorDoesNotAbort ==
    grouped =>
        \A i \in 1..Len(probes) :
            ( /\ probes[i].result = "error"
              /\ i = Len(probes)
              /\ i < Len(nest) )
                => pc # "responded"

\* C5 as stated: a lookup all of whose probes ended in an upstream error is
\* answered 500, never 404.
C5_AllProbesFailedIs500 ==
    ( /\ pc = "responded"
      /\ probes # << >>
      /\ \A i \in 1..Len(probes) : probes[i].result = "error" )
        => status = 500

\* C6 as stated: when every probe of every layer and pass succeeded with
\* zero features, the answer is 404 and the encoder was never called.
C6_NothingFoundIs404 ==
    ( /\ pc = "responded"
      /\ Len(probes) >= Len(nest)
      /\ probes # << >>
      /\ \A i \in 1..Len(probes) : probes[i].result = "empty" )
        => (status = 404 /\ encoderCalls = 0)

\* the ID shapes the auto-detection knows: WP and at least three digits, the
\* prefix LOD_, a number and one of the suffixes UT TR SR OF PR
knownShape(assetId) ==
    LET s == toUpperCase(trim(assetId))
        n == Len(s)
    IN  \/ /\ n >= 5
           /\ SubSeq(s, 1, 2) = <<"W","P">>
           /\ \A k \in 3..n : s[k] \in Digits
        \/ /\ n >= 4
           /\ SubSeq(s, 1, 4) = <<"L","O","D","_">>
        \/ \E d \in 1..(n - 2) :
              /\ \A k \in 1..d : s[k] \in Digits
              /\ SubSeq(s, n - 1, n) \in TmdlSuffixes
              /\ Cardinality({k \in (d + 1)..(n - 2) : s[k] = "-"}) <= 1
              /\ \A k \in (d + 1)..(n - 2) : s[k] \in {" ", "-"}

\* C7 as stated: with no dataset in the body and an ID of none of the known
\* shapes no upstream query is issued, the encoder is not called and the
\* answer is 400.
C7_Original ==
    (req.dataset = "" /\ ~knownShape(req.assetId))
        => /\ probes = << >>
           /\ encoderCalls = 0
           /\ pc = "responded" => status = 400

\* C7: with no dataset and neither geojson nor geojsonUrl in the body, and an
\* ID of none of the known shapes, no upstream query is issued, the encoder
\* is not called and the answer is 400: no dataset is resolved by default.
C7_NoDefaultDataset ==
    (req.dataset = "" /\ req.geojson = "" /\ ~knownShape(req.assetId))
        => /\ probes = << >>
           /\ encoderCalls = 0
           /\ pc = "responded" => status = 400

\* the two-pass handler has answered a body without dataset whose ID 12AB
\* has no known shape
C7_Witness ==
    /\ endpoint = "convert_passes"
    /\ req.dataset = ""
    /\ req.assetId = <<"1","2","A","B">>
    /\ pc = "responded"
    /\ status = 400

\* C8 as stated: a request naming a dataset key no registry resolves is
\* answered with a 4xx status, in every handler.
C8_UnknownDatasetIs4xx ==
    ( /\ pc = "responded"
      /\ req.dataset = "no_such_dataset"
      /\ trim(req.assetId) # << >> )
        => status \in 400..499

----------------------------------------------------------------------------
(* Properties of the variants and of the exact predicate *)

\* the ID as compared: trimmed, upper-cased
folded == toUpperCase(trim(id))

\* the digits the folded ID begins with, and the letters it ends with
leadingDigits ==
    LET ks == {k \in 0..Len(folded) : \A j \in 1..k : folded[j] \in Digits}
    IN  SubSeq(folded, 1, CHOOSE k \in ks : \A j \in ks : j <= k)

trailingLetters ==
    LET n  == Len(folded)
        ks == {k \in 0..n : \A j \in (n - k + 1)..n : folded[j] \in Upper}
    IN  SubSeq(folded, n - (CHOOSE k \in ks : \A j \in ks : j <= k) + 1, n)

\* between the digits and the letters: blanks and at most one hyphen
separatorOnly ==
    LET mid == SubSeq(folded, Len(leadingDigits) + 1,
                      Len(folded) - Len(trailingLetters))
    IN  /\ \A k \in 1..Len(mid) : mid[k] \in {" ", "-"}
        /\ Cardinality({k \in 1..Len(mid) : mid[k] = "-"}) <= 1

\* a number, a separator or none, and a suffix of letters
numberAndSuffix ==
    /\ leadingDigits # << >>
    /\ trailingLetters # << >>
    /\ Len(leadingDigits) + Len(trailingLetters) <= Len(folded)
    /\ separatorOnly

\* C11: for an ID that is a number and a two-letter suffix, with blanks
\* and at most one hyphen between them, tmdlVariants returns exactly the
\* concatenated, the hyphenated and the spaced spelling, whatever spelling
\* and letter case was given.
C11_ThreeSpellings ==
    (builder = "tmdlVariants" /\ numberAndSuffix /\ Len(trailingLetters) = 2)
        => vals = << leadingDigits \o trailingLetters,
                     leadingDigits \o <<"-">> \o trailingLetters,
                     leadingDigits \o <<" ">> \o trailingLetters >>

\* the ID "1 -aB", lower case and both separators, gave 1AB, 1-AB, 1 AB
C11_Witness ==
    /\ builder = "tmdlVariants"
    /\ id = <<"1"," ","-","a","B">>
    /\ vals = << <<"1","A","B">>, <<"1","-","A","B">>, <<"1"," ","A","B">> >>

\* C12 as stated: for a number and a suffix of two or more letters, in
\* whatever spelling, the variants hold the concatenated, the hyphenated and
\* the spaced form.
C12_AllThreeForms ==
    (builder = "tmdlVariants" /\ numberAndSuffix /\ Len(trailingLetters) >= 2)
        => \A sep \in { << >>, <<"-">>, <<" ">> } :
              \E k \in 1..Len(vals) :
                  vals[k] = leadingDigits \o sep \o trailingLetters

\* C13 as stated: outside the TMDL family the one literal of the predicate
\* is the trimmed asset ID.
C13_OnlyTrimmedId ==
    builder = "buildWhereExact_plain"
        => /\ vals = << trim(id) >>
           /\ sent = <<"U","P","P","E","R","(">> \o idFieldsOf(forKey)[1]
                       \o <<")"," ","="," ","U","P","P","E","R","(","'">>
                       \o trim(id) \o <<"'",")">>

\* the fields the predicate of the state was built over
fieldsUsed == idFieldsOf(forKey)

\* the text of the disjunction over the pairs from (i, j) on, fields outside
RECURSIVE disjunctionFrom(_, _)
disjunctionFrom(i, j) ==
    LET term == <<"U","P","P","E","R","(">> \o fieldsUsed[i]
                  \o <<")"," ","="," ","U","P","P","E","R","(","'">>
                  \o vals[j] \o <<"'",")">>
    IN  IF j < Len(vals) THEN term \o <<" ","O","R"," ">> \o disjunctionFrom(i, j + 1)
        ELSE IF i < Len(fieldsUsed)
             THEN term \o <<" ","O","R"," ">> \o disjunctionFrom(i + 1, 1)
             ELSE term

\* C14: the exact predicate is the OR of one term UPPER(f) = UPPER('v') for
\* every pair of a field and a variant, |fields| x |variants| terms and
\* nothing else.
C14_OneTermPerPair ==
    builder \in {"buildWhereExact_tmdl", "buildWhereExact_plain"}
        => sent = disjunctionFrom(1, 1)

\* fields [FACILITY_ID] and the ID AB12: UPPER(FACILITY_ID) = UPPER('AB12')
C14_Witness ==
    /\ builder = "buildWhereExact_plain"
    /\ id = <<"A","B","1","2">>
    /\ sent = <<"U","P","P","E","R","(","F","A","C","I","L","I","T","Y","_","I","D",")"," ","="," ","U","P","P","E","R","(","'","A","B","1","2","'",")">>

\* a TMDL ID gave the terms of eight fields and three variants
C14_WitnessTmdl ==
    /\ builder = "buildWhereExact_tmdl"
    /\ id = <<"1","2","3","A","B">>
    /\ Len(vals) = 3
    /\ Len(fieldsUsed) = 8

----------------------------------------------------------------------------
(* The LIKE predicate, the geometry and the provenance of what is returned *)

\* the probes that evaluate a LIKE predicate: the LIKE pass, and the single
\* predicate that ORs the LIKE terms to the equality terms, which fetchFeature
\* sends with f=geojson and again with f=json
evaluatesLike(i) == probes[i].pass \in {"like", "any", "esri"}

\* C15: LIKE is a fallback.  A LIKE predicate is evaluated against a layer
\* only after the exact predicate was evaluated against that layer and matched
\* nothing, and no feature that matches only as a substring is returned while
\* the layer it comes from holds a feature that matches exactly.
C15_LikeIsFallback ==
    /\ \A i \in 1..Len(probes) :
          evaluatesLike(i) =>
             \E j \in 1..(i - 1) :
                /\ probes[j].layer = probes[i].layer
                /\ probes[j].pass = "exact"
                /\ probes[j].result = "empty"
    /\ (fc # NoFC /\ fc.layer \in Layers
           /\ upstream[fc.layer].kind \in {"exact", "both"})
          => "fuzzy" \notin fc.features

----------------------------------------------------------------------------
(* The geometry translator: Esri JSON geometry to GeoJSON *)

\* two closed rings and two paths, as arrays of [x, y] positions
outerRing == << <<0, 0>>, <<4, 0>>, <<4, 4>>, <<0, 0>> >>
innerRing == << <<1, 1>>, <<2, 1>>, <<2, 2>>, <<1, 1>> >>
pathA == << <<0, 0>>, <<1, 1>> >>
pathB == << <<2, 2>>, <<3, 3>> >>

RECURSIVE arraysUpTo(_, _)
arraysUpTo(parts, n) ==
    IF n = 0 THEN { << >> }
    ELSE arraysUpTo(parts, n - 1)
         \cup {Append(a, e) : a \in arraysUpTo(parts, n - 1), e \in parts}

\* a property of the geometry object that may be absent: the set of its values
Optional(values) == { {} } \cup {{v} : v \in values}

\* an ordinate as upstream sends it: a number, or anything else (absent, a
\* string, null)
Ordinates == [isNumber : BOOLEAN, value : {0, 1}]

\* f.geometry of an upstream feature; a feature without geometry has none of
\* the properties
EsriGeometries ==
    [rings : Optional(arraysUpTo({outerRing, innerRing}, MaxParts)),
     paths : Optional(arraysUpTo({pathA, pathB}, MaxParts)),
     x : Ordinates, y : Ordinates]

\* f.attributes, by the names of the fields
EsriFeatures == [attributes : {{}, {"OBJECTID"}}, geometry : EsriGeometries]

isArray(opt) == opt # {}
the(opt) == CHOOSE v \in opt : TRUE

null == [type |-> "null"]

\* the branches on g.rings, g.paths and g.x, g.y
translate(g) ==
    IF isArray(g.rings)
    THEN [type |-> "Polygon", coordinates |-> the(g.rings)]
    ELSE IF isArray(g.paths)
         THEN IF Len(the(g.paths)) = 1
              THEN [type |-> "LineString", coordinates |-> the(g.paths)[1]]
              ELSE [type |-> "MultiLineString", coordinates |-> the(g.paths)]
         ELSE IF g.x.isNumber /\ g.y.isNumber
              THEN [type |-> "Point", coordinates |-> << g.x.value, g.y.value >>]
              ELSE null

esriToGeoJSONFeature(f) ==
    LET geo == translate(f.geometry)
    IN  IF geo = null THEN null
        ELSE [type |-> "Feature", properties |-> f.attributes, geometry |-> geo]

\* /locate translates the geometry of feats[0] in the handler
locateGeo(f) == translate(f.geometry)

InitGeometry ==
    /\ idle
    /\ id = << >>
    /\ builder = ""
    /\ sent = << >>
    /\ vals = << >>
    /\ forKey = ""
    /\ native \in {<< f >> : f \in EsriFeatures}
    /\ geom = << >>
    /\ registry = << >>
    /\ aliases = << >>
    /\ lookup = << >>
    /\ resolved = << >>
    /\ bulkIdle

do_esriToGeoJSONFeature ==
    /\ builder = ""
    /\ builder' = "esriToGeoJSONFeature"
    /\ geom' = << esriToGeoJSONFeature(native[1]) >>
    /\ UNCHANGED << id, sent, variantVars, native, registryVars >>
    /\ UNCHANGED lookupVars
    /\ UNCHANGED bulkVars

do_locateGeo ==
    /\ builder = ""
    /\ builder' = "locate"
    /\ geom' = << locateGeo(native[1]) >>
    /\ UNCHANGED << id, sent, variantVars, native, registryVars >>
    /\ UNCHANGED lookupVars
    /\ UNCHANGED bulkVars

NextGeometry ==
    \/ do_esriToGeoJSONFeature
    \/ do_locateGeo

SpecGeometry == InitGeometry /\ [][NextGeometry]_vars

\* the GeoJSON geometry the translator produced
translated == IF builder = "locate" THEN geom[1] ELSE geom[1].geometry

nativeRings == the(native[1].geometry.rings)

\* C16: native rings are mapped by their number.  One ring yields a Polygon
\* whose sole boundary is that ring; two rings yield a MultiPolygon of two
\* single-ring polygons, never one Polygon that holds both rings.
C16_RingsByCount ==
    (geom # << >> /\ isArray(native[1].geometry.rings)) =>
        /\ Len(nativeRings) = 1 =>
              /\ translated.type = "Polygon"
              /\ translated.coordinates = << nativeRings[1] >>
        /\ Len(nativeRings) = 2 =>
              /\ translated.type = "MultiPolygon"
              /\ translated.coordinates
                    = << << nativeRings[1] >>, << nativeRings[2] >> >>


----------------------------------------------------------------------------
(* Features without usable geometry *)

\* probe i was answered with features, the first of them without usable
\* geometry and another one with
answeredFirstNull(i) ==
    /\ probes[i].result = "hit"
    /\ upstream[probes[i].layer].geometry = "firstNull"

\* C17: a feature whose geometry is missing or has none of rings, paths and
\* numeric x, y is left out of the probe result.  It is never the resolved
\* feature, and it is not fatal: when the same answer holds a feature with
\* usable geometry, that one is resolved and the lookup does not fail on the
\* geometry.
C17_NoGeometryIsExcluded ==
    /\ fc # NoFC => fc.geometry # "null"
    /\ (\E i \in 1..Len(probes) : answeredFirstNull(i)) =>
          /\ fc # NoFC
          /\ fc.geometry = "usable"
          /\ error # "Unable to compute centroid"


----------------------------------------------------------------------------
(* Provenance *)

\* the handlers that spread the provenance properties over features[0]
Tagging == {"convert_passes", "convert_montgomery"}

\* C18: every feature a successful /convert lookup returns carries, beside
\* the upstream attributes, _assetId (the requested ID), _dataset (the key of
\* the layer that matched) and _matchMode, whose value is exact or fuzzy and
\* names the pass that matched.
C18_ProvenanceOnEveryFeature ==
    (status = 200 /\ endpoint \in Tagging) =>
        /\ {"_assetId", "_dataset", "_matchMode"} \subseteq DOMAIN fc.properties
        /\ fc.properties._assetId = req.assetId
        /\ fc.properties._dataset = fc.key
        /\ fc.properties._matchMode \in {"exact", "fuzzy"}
        /\ (fc.properties._matchMode = "exact") = (fc.pass = "exact")


----------------------------------------------------------------------------
(* The dataset registry of the bulk endpoint and its aliases *)

\* the letters; the em dash of the labels is the character "emdash"
LowerCase == << "a","b","c","d","e","f","g","h","i","j","k","l","m",
                "n","o","p","q","r","s","t","u","v","w","x","y","z" >>
UpperCase == << "A","B","C","D","E","F","G","H","I","J","K","L","M",
                "N","O","P","Q","R","S","T","U","V","W","X","Y","Z" >>

lowerOf(c) ==
    IF \E i \in 1..26 : UpperCase[i] = c
    THEN LowerCase[CHOOSE i \in 1..26 : UpperCase[i] = c] ELSE c

upperOf(c) ==
    IF \E i \in 1..26 : LowerCase[i] = c
    THEN UpperCase[CHOOSE i \in 1..26 : LowerCase[i] = c] ELSE c

\* String.prototype.toLowerCase
toLowerCase(s) == [i \in 1..Len(s) |-> lowerOf(s[i])]

\* label.replaceAll("—", "-")
hyphenVariant(s) == [i \in 1..Len(s) |-> IF s[i] = "emdash" THEN "-" ELSE s[i]]

\* Object.entries(DATASETS), in the order of the source
DATASETS_bulk ==
    <<
       [key   |-> <<"f","a","i","r","f","a","x","_","b","m","p","s">>,
        base  |-> "https://www.fairfaxcounty.gov/mercator/rest/services/DPWES/StwFieldMap/MapServer/7",
        idField |-> "FACILITY_ID",
        label |-> <<"F","a","i","r","f","a","x"," ","emdash"," ","S","t","o","r","m","w","a","t","e","r"," ","F","a","c","i","l","i","t","i","e","s"," ","(","F","A","C","I","L","I","T","Y","_","I","D",")">>],
       [key   |-> <<"m","d","s","h","a","_","l","a","n","d","s","c","a","p","e">>,
        base  |-> "https://maps.roads.maryland.gov/arcgis/rest/services/OED_Env_Assets_Mgr/OED_Environmental_Assets_WGS84_Maryland_MDOTSHA/MapServer/0",
        idField |-> "LOD_ID",
        label |-> <<"M","D","O","T"," ","S","H","A"," ","emdash"," ","M","a","n","a","g","e","d"," ","L","a","n","d","s","c","a","p","e"," ","(","L","O","D","_","I","D",")">>],
       [key   |-> <<"m","d","s","h","a","_","t","m","d","l","_","s","t","r","u","c","t","u","r","e","s">>,
        base  |-> "https://maps.roads.maryland.gov/arcgis/rest/services/BayRestoration/TMDLBayRestorationViewer_Maryland_MDOTSHA/MapServer/0",
        idField |-> "SWM_FAC_NO",
        label |-> <<"T","M","D","L"," ","emdash"," ","S","t","o","r","m","w","a","t","e","r"," ","C","o","n","t","r","o","l"," ","S","t","r","u","c","t","u","r","e","s">>],
       [key   |-> <<"m","d","s","h","a","_","t","m","d","l","_","r","e","t","r","o","f","i","t","s">>,
        base  |-> "https://maps.roads.maryland.gov/arcgis/rest/services/BayRestoration/TMDLBayRestorationViewer_Maryland_MDOTSHA/MapServer/1",
        idField |-> "SWM_FAC_NO",
        label |-> <<"T","M","D","L"," ","emdash"," ","R","e","t","r","o","f","i","t","s">>],
       [key   |-> <<"m","d","s","h","a","_","t","m","d","l","_","t","r","e","e","_","p","l","a","n","t","i","n","g","s">>,
        base  |-> "https://maps.roads.maryland.gov/arcgis/rest/services/BayRestoration/TMDLBayRestorationViewer_Maryland_MDOTSHA/MapServer/2",
        idField |-> "STRU_ID",
        label |-> <<"T","M","D","L"," ","emdash"," ","T","r","e","e"," ","P","l","a","n","t","i","n","g","s">>],
       [key   |-> <<"m","d","s","h","a","_","t","m","d","l","_","p","a","v","e","m","e","n","t","_","r","e","m","o","v","a","l","s">>,
        base  |-> "https://maps.roads.maryland.gov/arcgis/rest/services/BayRestoration/TMDLBayRestorationViewer_Maryland_MDOTSHA/MapServer/3",
        idField |-> "STRU_ID",
        label |-> <<"T","M","D","L"," ","emdash"," ","P","a","v","e","m","e","n","t"," ","R","e","m","o","v","a","l","s">>],
       [key   |-> <<"m","d","s","h","a","_","t","m","d","l","_","s","t","r","e","a","m","_","r","e","s","t","o","r","a","t","i","o","n","s">>,
        base  |-> "https://maps.roads.maryland.gov/arcgis/rest/services/BayRestoration/TMDLBayRestorationViewer_Maryland_MDOTSHA/MapServer/4",
        idField |-> "STRU_ID",
        label |-> <<"T","M","D","L"," ","emdash"," ","S","t","r","e","a","m"," ","R","e","s","t","o","r","a","t","i","o","n","s">>],
       [key   |-> <<"m","d","s","h","a","_","t","m","d","l","_","o","u","t","f","a","l","l","_","s","t","a","b","i","l","i","z","a","t","i","o","n","s">>,
        base  |-> "https://maps.roads.maryland.gov/arcgis/rest/services/BayRestoration/TMDLBayRestorationViewer_Maryland_MDOTSHA/MapServer/5",
        idField |-> "STRU_ID",
        label |-> <<"T","M","D","L"," ","emdash"," ","O","u","t","f","a","l","l"," ","S","t","a","b","i","l","i","z","a","t","i","o","n","s">>]
    >>

\* the short forms set after the loop, in the order of the source
shortForms ==
    <<
       [s |-> <<"f","a","i","r","f","a","x">>,
        k |-> <<"f","a","i","r","f","a","x","_","b","m","p","s">>],
       [s |-> <<"m","d","o","t"," ","s","h","a"," ","l","a","n","d","s","c","a","p","e">>,
        k |-> <<"m","d","s","h","a","_","l","a","n","d","s","c","a","p","e">>],
       [s |-> <<"t","m","d","l"," ","s","t","r","u","c","t","u","r","e","s">>,
        k |-> <<"m","d","s","h","a","_","t","m","d","l","_","s","t","r","u","c","t","u","r","e","s">>],
       [s |-> <<"t","m","d","l"," ","r","e","t","r","o","f","i","t","s">>,
        k |-> <<"m","d","s","h","a","_","t","m","d","l","_","r","e","t","r","o","f","i","t","s">>],
       [s |-> <<"t","m","d","l"," ","t","r","e","e","s">>,
        k |-> <<"m","d","s","h","a","_","t","m","d","l","_","t","r","e","e","_","p","l","a","n","t","i","n","g","s">>]
    >>

\* Map.prototype.set: a string already set is given the new key
mapSet(m, s, k) == [x \in DOMAIN m \cup {s} |-> IF x = s THEN k ELSE m[x]]

\* the calls of m.set, in order: three for each entry, then the short forms
registrations(entries) ==
    Flatten([i \in 1..Len(entries) |->
                << [s |-> toLowerCase(entries[i].key), k |-> entries[i].key],
                   [s |-> toLowerCase(entries[i].label), k |-> entries[i].key],
                   [s |-> toLowerCase(hyphenVariant(entries[i].label)),
                    k |-> entries[i].key] >>])
    \o shortForms

RECURSIVE setAll(_, _)
setAll(m, calls) ==
    IF calls = << >> THEN m
    ELSE setAll(mapSet(m, Head(calls).s, Head(calls).k), Tail(calls))

\* the map the construction returns
ALIASES(entries) == setAll(<< >>, registrations(entries))

\* normalizeDs without toLowerCase
normalizeDs_caseSensitive(m, d) ==
    IF d = << >> THEN << >>
    ELSE IF trim(d) \in DOMAIN m THEN m[trim(d)] ELSE trim(d)

normalizeDs(m, d) ==
    IF d = << >> THEN << >>
    ELSE LET s == toLowerCase(trim(d))
         IN  IF s \in DOMAIN m THEN m[s] ELSE trim(d)

\* the names DATASETS inherits from Object.prototype, as texts, and what
\* DATASETS[key] is for them: a function or an object, truthy, whose base and
\* idField are undefined
inheritedNames ==
    { <<"c","o","n","s","t","r","u","c","t","o","r">>,
      <<"t","o","S","t","r","i","n","g">>,
      <<"_","_","p","r","o","t","o","_","_">>,
      <<"v","a","l","u","e","O","f">>,
      <<"t","o","L","o","c","a","l","e","S","t","r","i","n","g">>,
      <<"h","a","s","O","w","n","P","r","o","p","e","r","t","y">>,
      <<"i","s","P","r","o","t","o","t","y","p","e","O","f">>,
      <<"p","r","o","p","e","r","t","y","I","s","E","n","u","m","e","r","a","b","l","e">>,
      <<"_","_","d","e","f","i","n","e","G","e","t","t","e","r","_","_">>,
      <<"_","_","d","e","f","i","n","e","S","e","t","t","e","r","_","_">>,
      <<"_","_","l","o","o","k","u","p","G","e","t","t","e","r","_","_">>,
      <<"_","_","l","o","o","k","u","p","S","e","t","t","e","r","_","_">> }
inheritedValue == [base |-> "undefined", idField |-> "undefined"]

\* the descriptor of a key, or the Error thrown for a key DATASETS[key] is
\* falsy for
unknownDataset == [base |-> "Unknown dataset", idField |-> ""]
ds(entries, key) ==
    IF \E i \in 1..Len(entries) : entries[i].key = key
    THEN LET e == entries[CHOOSE i \in 1..Len(entries) : entries[i].key = key]
         IN  [base |-> e.base, idField |-> e.idField]
    ELSE IF key \in inheritedNames THEN inheritedValue
    ELSE unknownDataset

\* the spellings of a text a row may carry: as registered, in capitals, in
\* small letters, with the case of every letter swapped, and padded
shout(s) == [i \in 1..Len(s) |-> upperOf(s[i])]
swapCase(s) == [i \in 1..Len(s) |-> IF upperOf(s[i]) = s[i] THEN lowerOf(s[i])
                                                             ELSE upperOf(s[i])]
spellings(s) ==
    {s, shout(s), toLowerCase(s), swapCase(s), << " " >> \o s \o << " " >>}

\* the dataset column of a bulk row: keys, labels, hyphen variants and short
\* forms in those spellings, strings the registry lacks, and the empty string
Lookups ==
    UNION {spellings(DATASETS_bulk[i].key) \cup spellings(DATASETS_bulk[i].label)
              \cup spellings(hyphenVariant(DATASETS_bulk[i].label)) :
           i \in 1..Len(DATASETS_bulk)}
    \cup UNION {spellings(shortForms[i].s) : i \in 1..Len(shortForms)}
    \cup inheritedNames
    \cup { <<"C","O","N","S","T","R","U","C","T","O","R">> }
    \cup { <<"n","o","_","s","u","c","h","_","d","a","t","a","s","e","t">>, <<"t","m","d","l">>, <<"F","a","i","r","f","a","x">>, <<"T","M","D","L"," ","emdash"," ","r","e","t","r","o">> }
    \cup { << >> }

InitRegistry ==
    /\ idle
    /\ id = << >>
    /\ builder = ""
    /\ sent = << >>
    /\ vals = << >>
    /\ forKey = ""
    /\ native = << >>
    /\ geom = << >>
    /\ registry = DATASETS_bulk
    /\ aliases = ALIASES(DATASETS_bulk)
    /\ lookup \in {<< d >> : d \in Lookups}
    /\ resolved = << >>
    /\ bulkIdle

\* const key = normalizeDs(row.dataset)
do_normalizeDs ==
    /\ builder = ""
    /\ builder' = "normalizeDs"
    /\ resolved' = << [key |-> normalizeDs(aliases, lookup[1])] >>
    /\ UNCHANGED << id, sent, variantVars, geometryVars, registry, aliases, lookup >>
    /\ UNCHANGED lookupVars
    /\ UNCHANGED bulkVars

\* const d = ds(key)
do_ds ==
    /\ builder = "normalizeDs"
    /\ builder' = "ds"
    /\ resolved' = << [key |-> resolved[1].key,
                       descriptor |-> ds(registry, resolved[1].key)] >>
    /\ UNCHANGED << id, sent, variantVars, geometryVars, registry, aliases, lookup >>
    /\ UNCHANGED lookupVars
    /\ UNCHANGED bulkVars

NextRegistry ==
    \/ do_normalizeDs
    \/ do_ds

SpecRegistry == InitRegistry /\ [][NextRegistry]_vars


\* two texts that differ in the case of their letters at most
caseless(a, b) == shout(a) = shout(b)

\* the dataset column names entry e by its key or by its label, in any case
namesEntry(e) == caseless(lookup[1], e.key) \/ caseless(lookup[1], e.label)

\* C19: for every registered dataset, normalizeDs resolves the canonical key
\* and the label, in any letter case, to that dataset, and ds then yields the
\* same descriptor (base and id field) for both.
C19_KeyAndLabelResolveAlike ==
    \A i \in 1..Len(registry) :
        (resolved # << >> /\ namesEntry(registry[i])) =>
            /\ resolved[1].key = registry[i].key
            /\ builder = "ds" =>
                  resolved[1].descriptor = [base    |-> registry[i].base,
                                            idField |-> registry[i].idField]

\* the label of the third dataset in capitals resolved to its descriptor
C19_Witness ==
    /\ builder = "ds"
    /\ lookup[1] = shout(DATASETS_bulk[3].label)
    /\ lookup[1] # DATASETS_bulk[3].label
    /\ resolved[1].key = DATASETS_bulk[3].key
    /\ resolved[1].descriptor.idField = "SWM_FAC_NO"


----------------------------------------------------------------------------
(* The construction of the alias map at the load of the module *)

InitAliases ==
    /\ idle
    /\ id = << >>
    /\ builder = ""
    /\ sent = << >>
    /\ vals = << >>
    /\ forKey = ""
    /\ native = << >>
    /\ geom = << >>
    /\ registry = DATASETS_bulk
    /\ aliases = << >>
    /\ lookup = << >>
    /\ resolved = << >>
    /\ bulkIdle

\* the module is loaded: the map is built, no call of m.set throws
do_ALIASES ==
    /\ builder = ""
    /\ builder' = "ALIASES"
    /\ aliases' = ALIASES(registry)
    /\ UNCHANGED << id, sent, variantVars, geometryVars, registry, lookup, resolved >>
    /\ UNCHANGED lookupVars
    /\ UNCHANGED bulkVars

\* a row names a dataset by one of the registered strings
do_lookup ==
    /\ builder = "ALIASES"
    /\ \E i \in 1..Len(registrations(registry)) :
          /\ lookup' = << registrations(registry)[i].s >>
          /\ resolved' = << [key |-> normalizeDs(aliases, registrations(registry)[i].s)] >>
    /\ builder' = "normalizeDs"
    /\ UNCHANGED << id, sent, variantVars, geometryVars, registry, aliases >>
    /\ UNCHANGED lookupVars
    /\ UNCHANGED bulkVars

NextAliases ==
    \/ do_ALIASES
    \/ do_lookup

SpecAliases == InitAliases /\ [][NextAliases]_vars


----------------------------------------------------------------------------
(* runPool: the concurrency limiter of the bulk endpoint *)

\* the limit the handler passes: runPool(toProcess, 4, doOne)
PoolLimit == 4

Min(a, b) == IF a < b THEN a ELSE b

\* the loop of next() without its test of active
batch_noLimit(a, t, n, limit) == n - t

\* the number of workers next() starts with a workers counted as running and
\* t of n items taken: while (active < limit && i < items.length)
batch(a, t, n, limit) ==
    IF a < limit /\ t < n THEN Min(limit - a, n - t) ELSE 0

\* ret[idx] = v
store(r, idx, v) == [x \in DOMAIN r \cup {idx} |-> IF x = idx THEN v ELSE r[x]]

\* resolve and reject settle a pending promise and leave a settled one alone
settle(p, to) == IF p = "pending" THEN to ELSE p

\* what the worker of the pool exercised on its own returns for an item
result(item) == << "done", item >>

\* the stage and the count of invocations after next() took k more items
begun(st, t, k, to) ==
    [idx \in DOMAIN st |-> IF idx > t /\ idx <= t + k THEN to ELSE st[idx]]
counted(inv, t, k) ==
    [idx \in DOMAIN inv |-> IF idx > t /\ idx <= t + k THEN inv[idx] + 1 ELSE inv[idx]]

PoolItems == {"a", "b"}

InitPool ==
    /\ idle
    /\ id = << >>
    /\ builder = ""
    /\ sent = << >>
    /\ vals = << >>
    /\ forKey = ""
    /\ native = << >>
    /\ geom = << >>
    /\ registry = << >>
    /\ aliases = << >>
    /\ lookup = << >>
    /\ resolved = << >>
    /\ variant = "runPool"
    /\ phase = "runPool"
    /\ \E n \in 0..MaxItems :
          /\ \E its \in [1..n -> PoolItems] :
                body = [items |-> its, defaultDataset |-> << >>, format |-> << >>]
          /\ stage = [idx \in 1..n |-> "pending"]
          /\ invoked = [idx \in 1..n |-> 0]
    /\ fate = << >>
    /\ taken = 0
    /\ active = 0
    /\ ret = << >>
    /\ promise = "none"
    /\ hits = << >>
    /\ zip = {}
    /\ skipped = << >>
    /\ response = [status |-> 0, error |-> "", type |-> ""]

\* runPool(items, limit, worker): the promise is made and next() runs once
runPool_call ==
    /\ variant = "runPool"
    /\ promise = "none"
    /\ LET n == Len(body.items)
           k == batch(0, 0, n, PoolLimit)
       IN  /\ promise' = IF n = 0 THEN "resolved" ELSE "pending"
           /\ taken' = k
           /\ active' = k
           /\ stage' = begun(stage, 0, k, "running")
           /\ invoked' = counted(invoked, 0, k)
    /\ UNCHANGED << variant, phase, body, fate, ret, hits, zip, skipped, response >>
    /\ UNCHANGED << id, builder, sent, variantVars, geometryVars, registryVars >>
    /\ UNCHANGED lookupVars

\* a worker's promise is fulfilled: ret[idx] = v; active--; next()
runPool_then ==
    /\ variant = "runPool"
    /\ \E idx \in DOMAIN stage :
          /\ stage[idx] = "running"
          /\ LET n == Len(body.items)
                 a == active - 1
                 k == IF taken >= n /\ a = 0 THEN 0
                      ELSE batch(a, taken, n, PoolLimit)
             IN  /\ ret' = store(ret, idx, result(body.items[idx]))
                 /\ promise' = IF taken >= n /\ a = 0
                               THEN settle(promise, "resolved") ELSE promise
                 /\ taken' = taken + k
                 /\ active' = a + k
                 /\ stage' = begun([stage EXCEPT ![idx] = "done"], taken, k, "running")
                 /\ invoked' = counted(invoked, taken, k)
    /\ UNCHANGED << variant, phase, body, fate, hits, zip, skipped, response >>
    /\ UNCHANGED << id, builder, sent, variantVars, geometryVars, registryVars >>
    /\ UNCHANGED lookupVars

\* a worker's promise is rejected: reject(err), and nothing else
runPool_catch ==
    /\ variant = "runPool"
    /\ \E idx \in DOMAIN stage :
          /\ stage[idx] = "running"
          /\ stage' = [stage EXCEPT ![idx] = "failed"]
    /\ promise' = settle(promise, "rejected")
    /\ UNCHANGED << variant, phase, body, fate, taken, active, ret, invoked, hits,
                    zip, skipped, response >>
    /\ UNCHANGED << id, builder, sent, variantVars, geometryVars, registryVars >>
    /\ UNCHANGED lookupVars

NextPool ==
    \/ runPool_call
    \/ runPool_then
    \/ runPool_catch

SpecPool == InitPool /\ [][NextPool]_vars

\* the items whose worker has been started and has not finished
inFlight == {idx \in DOMAIN stage : stage[idx] \in {"running", "fetching", "encoding"}}

\* C24: while runPool works with limit 4, the items whose worker has been
\* started and has not yet finished are never more than 4, whatever the order
\* in which the workers complete.
C24_AtMostFourInFlight == Cardinality(inFlight) <= PoolLimit

\* four workers in flight, one has finished, an item is still waiting
C24_Witness ==
    /\ variant = "runPool"
    /\ Cardinality(inFlight) = PoolLimit
    /\ \E idx \in DOMAIN stage : stage[idx] = "done"
    /\ \E idx \in DOMAIN stage : stage[idx] = "pending"


\* runPool has been called and no worker is in flight
quiescent == promise # "none" /\ inFlight = {}

\* every stored result is the result of the item at its index
ownIndex ==
    /\ \A idx \in DOMAIN ret :
          /\ idx \in DOMAIN stage
          /\ stage[idx] = "done"
          /\ ret[idx] = result(body.items[idx])
    /\ \A idx \in DOMAIN stage : stage[idx] = "done" => idx \in DOMAIN ret

\* C28 as stated: runPool invokes the worker exactly once for every input
\* item and stores each result at the index of its own item, whatever the
\* order of completion; when all workers succeed the promise resolves only
\* after every worker has finished, and for an empty list of items it
\* resolves at the call.
C28_OncePerItemAtOwnIndex ==
    variant = "runPool" =>
        /\ ownIndex
        /\ \A idx \in DOMAIN invoked : invoked[idx] <= 1
        /\ quiescent => \A idx \in DOMAIN invoked : invoked[idx] = 1
        /\ promise = "resolved" =>
              \A idx \in DOMAIN stage : stage[idx] = "done" /\ invoked[idx] = 1
        /\ (promise # "none" /\ body.items = << >>) => promise = "resolved"


----------------------------------------------------------------------------
(* The bulk endpoint: requests, upstream, encoder *)

\* at most this many rows in the body of a bulk request
MaxRows == 2
\* at most this many rows that upstream or the encoder does not serve well
MaxFailing == 1

\* the three handlers of api/bulk.js: one file per hit and errors.csv, one
\* file per asset through runPool, one merged file
BulkHandlers == {"bulk_errorsCsv", "bulk_pool", "bulk_merged"}

fairfax_bmps == <<"f","a","i","r","f","a","x","_","b","m","p","s">>
mdsha_landscape == <<"m","d","s","h","a","_","l","a","n","d","s","c","a","p","e">>

RowIds == { << >>, <<"A"," ","1">>, <<"A","_","1">> }
RowDatasets == { << >>, fairfax_bmps, mdsha_landscape }
Rows == [assetId : RowIds, dataset : RowDatasets]
Defaults == { << >>, fairfax_bmps }

\* format === "shp" || format === "shapefile"
ShapefileFormats == { <<"s","h","p">>, <<"s","h","a","p","e","f","i","l","e">> }

\* body.format: absent, or one of these
Formats == { << >>, <<"k","m","l","z","i","p">>, <<"k","m","l">>, <<"g","e","o","j","s","o","n">>,
             <<"s","h","a","p","e","f","i","l","e">>, <<"p","d","f">> }

RECURSIVE rowsUpTo(_)
rowsUpTo(n) ==
    IF n = 0 THEN { << >> }
    ELSE rowsUpTo(n - 1) \cup {Append(rs, r) : rs \in rowsUpTo(n - 1), r \in Rows}

\* what upstream answers to the query for an item (a feature, none, an error
\* status, nothing at all) and what mapshaper makes of the feature (the file,
\* no file, an exception)
Outcomes == [upstream : {"found"}, encoder : {"ok", "empty", "throws"}]
            \cup [upstream : {"none", "error", "hangs"}, encoder : {"ok"}]
served == [upstream |-> "found", encoder |-> "ok"]

\* the parts of a shapefile doOne looks for among the files mapshaper returns
\* (out.shp, out.shx, out.dbf, out.prj, out.cpg), by their extensions
partNames == << <<".","s","h","p">>, <<".","s","h","x">>, <<".","d","b","f">>,
               <<".","p","r","j">>, <<".","c","p","g">> >>

\* what mapshaper returns for -o format=shapefile: the three parts of every
\* shapefile, with the projection, with the code page too, or short of a part
usualParts == {partNames[k] : k \in 1..4}
PartSets == { {partNames[k] : k \in 1..3}, usualParts, Range(partNames),
              {partNames[1], partNames[3]} }

\* an item's fate: the outcome and the parts its shapefile would have
Fates == {[upstream |-> o.upstream, encoder |-> o.encoder, parts |-> ps] :
             o \in Outcomes, ps \in PartSets}
outcomeOf(f) == [upstream |-> f.upstream, encoder |-> f.encoder]

\* a || b of two texts
orElse(a, b) == IF a # << >> THEN a ELSE b

endsWith(t, suffix) ==
    Len(t) >= Len(suffix) /\ SubSeq(t, Len(t) - Len(suffix) + 1, Len(t)) = suffix

\* the alias map of the shipped registry
shippedAliases == ALIASES(DATASETS_bulk)

\* \w of the name patterns, beside the digits
isWordChar(c) ==
    \/ c \in Digits
    \/ c = "_"
    \/ \E k \in 1..26 : LowerCase[k] = c \/ UpperCase[k] = c

\* .replace(/[^\w.-]+/g, "_"): every run of other characters becomes one "_"
RECURSIVE replaceRuns(_, _)
replaceRuns(t, inRun) ==
    IF t = << >> THEN << >>
    ELSE IF isWordChar(Head(t)) \/ Head(t) \in {".", "-"}
         THEN << Head(t) >> \o replaceRuns(Tail(t), FALSE)
         ELSE IF inRun THEN replaceRuns(Tail(t), TRUE)
              ELSE << "_" >> \o replaceRuns(Tail(t), TRUE)

\* .replace(/^_+/, "")
RECURSIVE stripUnderscores(_)
stripUnderscores(t) ==
    IF t # << >> /\ Head(t) = "_" THEN stripUnderscores(Tail(t)) ELSE t

safeName(t) ==
    LET cut == SubSeq(stripUnderscores(replaceRuns(t, FALSE)), 1,
                      Min(80, Len(stripUnderscores(replaceRuns(t, FALSE)))))
    IN  IF cut = << >> THEN <<"a","s","s","e","t">> ELSE cut

\* `${dsKey}__${id}.${ext}`
outName(dsKey, assetId, ext) == dsKey \o <<"_","_">> \o assetId \o <<".">> \o ext

\* AdmZip.addFile: an entry of the same name is replaced
addFile(z, name, idx) == {e \in z : e.name # name} \cup {[name |-> name, item |-> idx]}

errorsCsv == <<"e","r","r","o","r","s",".","c","s","v">>

\* addErrorsCsv: errors.csv holds the misses, and is left out when there are none
addErrorsCsv(z, misses) ==
    IF misses = << >> THEN z ELSE addFile(z, errorsCsv, 0)

\* the timeout the handler gives its GET, in ms; 0 where it gives none
timeoutMs(v) ==
    CASE v = "bulk_errorsCsv" -> 30000
      [] v = "bulk_pool" -> 20000
      [] OTHER -> 0

\* how the GET for an item ends: with features, with none, with an error (a
\* status other than 2xx, or the timeout while upstream is silent), or not at
\* all
axiosGet(idx) ==
    IF fate[idx].upstream = "hangs"
    THEN IF timeoutMs(variant) > 0 THEN "error" ELSE "pending"
    ELSE fate[idx].upstream

miss(idx, assetId, datasetKey, reason) ==
    [item |-> idx, assetId |-> assetId, dataset |-> datasetKey, reason |-> reason]

answer(code, text, ctype) == [status |-> code, error |-> text, type |-> ctype]

InitBulk ==
    /\ idle
    /\ id = << >>
    /\ builder = ""
    /\ sent = << >>
    /\ vals = << >>
    /\ forKey = ""
    /\ native = << >>
    /\ geom = << >>
    /\ registry = << >>
    /\ aliases = << >>
    /\ lookup = << >>
    /\ resolved = << >>
    /\ variant \in BulkHandlers
    /\ phase = "received"
    /\ \E rs \in rowsUpTo(MaxRows), d \in Defaults, f \in Formats :
          /\ body = [items |-> rs, defaultDataset |-> d, format |-> f]
          /\ fate \in {w \in [1..Len(rs) -> Fates] :
                          /\ Cardinality({k \in 1..Len(rs) : outcomeOf(w[k]) # served})
                                <= MaxFailing
                          /\ \A k \in 1..Len(rs) :
                                w[k].parts # usualParts =>
                                    /\ variant = "bulk_pool"
                                    /\ toLowerCase(f) \in ShapefileFormats
                                    /\ outcomeOf(w[k]) = served}
          /\ stage = [idx \in 1..Len(rs) |-> "pending"]
          /\ invoked = [idx \in 1..Len(rs) |-> 0]
    /\ taken = 0
    /\ active = 0
    /\ ret = << >>
    /\ promise = "none"
    /\ hits = << >>
    /\ zip = {}
    /\ skipped = << >>
    /\ response = [status |-> 0, error |-> "", type |-> ""]


----------------------------------------------------------------------------
(* Bulk, one file per hit and errors.csv *)

\* /zip$/i, /^kml/i, /^geojson/i, /^shapefile/i
wantZip(f) == endsWith(toLowerCase(f), <<"z","i","p">>)
asKml(f) == startsWith(toLowerCase(f), <<"k","m","l">>)
asGeo(f) == startsWith(toLowerCase(f), <<"g","e","o","j","s","o","n">>)
asShp(f) == startsWith(toLowerCase(f), <<"s","h","a","p","e","f","i","l","e">>)

\* format = "kmlzip" in the destructuring of the body
formatOf_errorsCsv == orElse(body.format, <<"k","m","l","z","i","p">>)

\* the rows of the request as the handler reads them
assetIdOf(idx) == trim(body.items[idx].assetId)
datasetKeyOf(idx) ==
    normalizeDs(shippedAliases,
                orElse(body.items[idx].dataset,
                       normalizeDs(shippedAliases, body.defaultDataset)))

\* the body is read: no items is answered 400
bulk_errorsCsv_read ==
    /\ variant = "bulk_errorsCsv"
    /\ phase = "received"
    /\ IF body.items = << >>
       THEN /\ response' = answer(400, "Provide items", "json")
            /\ phase' = "responded"
       ELSE /\ phase' = "rows"
            /\ UNCHANGED response
    /\ UNCHANGED << variant, body, fate, stage, taken, active, ret, invoked, promise,
                    hits, zip, skipped >>
    /\ UNCHANGED << id, builder, sent, variantVars, geometryVars, registryVars >>
    /\ UNCHANGED lookupVars

\* one turn of the loop over the items: fetchFeature(...).catch(() => null);
\* its GET has a timeout of 30 s, so a silent upstream is an error to it
bulk_errorsCsv_row ==
    /\ variant = "bulk_errorsCsv"
    /\ phase = "rows"
    /\ taken < Len(body.items)
    /\ LET idx == taken + 1
           assetId == assetIdOf(idx)
           datasetKey == datasetKeyOf(idx)
       IN  /\ taken' = idx
           /\ IF assetId = << >> \/ datasetKey = << >>
              THEN /\ skipped' = IF assetId # << >>
                                 THEN Append(skipped, miss(idx, assetId, datasetKey,
                                                           "missing dataset"))
                                 ELSE skipped
                   /\ stage' = [stage EXCEPT ![idx] = "dropped"]
                   /\ UNCHANGED hits
              ELSE IF axiosGet(idx) = "found"
                   THEN /\ hits' = Append(hits, idx)
                        /\ stage' = [stage EXCEPT ![idx] = "fetched"]
                        /\ UNCHANGED skipped
                   ELSE /\ skipped' = Append(skipped, miss(idx, assetId, datasetKey,
                                                           "not found"))
                        /\ stage' = [stage EXCEPT ![idx] = "missed"]
                        /\ UNCHANGED hits
    /\ UNCHANGED << variant, phase, body, fate, active, ret, invoked, promise, zip,
                    response >>
    /\ UNCHANGED << id, builder, sent, variantVars, geometryVars, registryVars >>
    /\ UNCHANGED lookupVars

\* after the loop: no hit is answered 404, a format that is none of kml,
\* geojson and shapefile 400; a merged file is encoded and sent
bulk_errorsCsv_decide ==
    /\ variant = "bulk_errorsCsv"
    /\ phase = "rows"
    /\ taken = Len(body.items)
    /\ LET f == formatOf_errorsCsv
           thrown == \E k \in 1..Len(hits) : fate[hits[k]].encoder = "throws"
       IN  IF hits = << >>
           THEN /\ response' = answer(404, "No features found for the provided inputs", "json")
                /\ phase' = "responded"
                /\ UNCHANGED active
           ELSE IF (asKml(f) \/ asGeo(f)) /\ ~wantZip(f)
                THEN /\ response' = IF asKml(f) /\ thrown
                                    THEN answer(500, "mapshaper", "json")
                                    ELSE answer(200, "", IF asKml(f) THEN "kml" ELSE "geojson")
                     /\ phase' = "responded"
                     /\ UNCHANGED active
                ELSE IF asKml(f) \/ asGeo(f) \/ asShp(f)
                     THEN /\ phase' = "encoding"
                          /\ active' = 0
                          /\ UNCHANGED response
                     ELSE /\ response' = answer(400, "Unknown format", "json")
                          /\ phase' = "responded"
                          /\ UNCHANGED active
    /\ UNCHANGED << variant, body, fate, stage, taken, ret, invoked, promise, hits,
                    zip, skipped >>
    /\ UNCHANGED << id, builder, sent, variantVars, geometryVars, registryVars >>
    /\ UNCHANGED lookupVars

\* one turn of the loop over the hits: the file of the hit is encoded and
\* added; an exception of mapshaper leaves the loop for the catch
bulk_errorsCsv_encode ==
    /\ variant = "bulk_errorsCsv"
    /\ phase = "encoding"
    /\ active < Len(hits)
    /\ LET idx == hits[active + 1]
           f == formatOf_errorsCsv
           ext == IF asKml(f) THEN <<"k","m","l">>
                  ELSE IF asGeo(f) THEN <<"g","e","o","j","s","o","n">>
                  ELSE <<"s","h","p",".","z","i","p">>
           encoded == asKml(f) \/ asShp(f)
       IN  /\ active' = active + 1
           /\ IF encoded /\ fate[idx].encoder = "throws"
              THEN /\ response' = answer(500, "mapshaper", "json")
                   /\ phase' = "responded"
                   /\ stage' = [stage EXCEPT ![idx] = "failed"]
                   /\ UNCHANGED << zip, skipped >>
              ELSE IF encoded /\ fate[idx].encoder = "empty"
                   THEN /\ skipped' = Append(skipped,
                              miss(idx, assetIdOf(idx), datasetKeyOf(idx),
                                   IF asKml(f) THEN "empty KML" ELSE "empty shapefile"))
                        /\ stage' = [stage EXCEPT ![idx] = "missed"]
                        /\ UNCHANGED << zip, response, phase >>
                   ELSE /\ zip' = addFile(zip, outName(datasetKeyOf(idx), assetIdOf(idx), ext), idx)
                        /\ stage' = [stage EXCEPT ![idx] = "done"]
                        /\ UNCHANGED << skipped, response, phase >>
    /\ UNCHANGED << variant, body, fate, taken, ret, invoked, promise, hits >>
    /\ UNCHANGED << id, builder, sent, variantVars, geometryVars, registryVars >>
    /\ UNCHANGED lookupVars

\* addErrorsCsv, and the archive is sent
bulk_errorsCsv_send ==
    /\ variant = "bulk_errorsCsv"
    /\ phase = "encoding"
    /\ active = Len(hits)
    /\ zip' = addErrorsCsv(zip, skipped)
    /\ response' = answer(200, "", "zip")
    /\ phase' = "responded"
    /\ UNCHANGED << variant, body, fate, stage, taken, active, ret, invoked, promise,
                    hits, skipped >>
    /\ UNCHANGED << id, builder, sent, variantVars, geometryVars, registryVars >>
    /\ UNCHANGED lookupVars


----------------------------------------------------------------------------
(* Bulk, one file per asset through runPool *)

\* (body.format || "kml").toLowerCase()
formatOf_pool == toLowerCase(orElse(body.format, <<"k","m","l">>))

isGeojson(f) == f = <<"g","e","o","j","s","o","n">>
isKml(f) == f = <<"k","m","l">>
isShp(f) == f \in ShapefileFormats

\* the rows after items.map: the ID trimmed, the dataset of the row or the
\* default one, trimmed
rowAssetId(idx) == trim(body.items[idx].assetId)
rowDataset(idx) == trim(orElse(body.items[idx].dataset, trim(body.defaultDataset)))

\* items.filter(r => r.assetId && r.dataset), by the indices of the items
RECURSIVE keptFrom(_)
keptFrom(idx) ==
    IF idx > Len(body.items) THEN << >>
    ELSE (IF rowAssetId(idx) # << >> /\ rowDataset(idx) # << >>
          THEN << idx >> ELSE << >>) \o keptFrom(idx + 1)
toProcess == keptFrom(1)

\* the entries doOne adds for an item: one file, or the parts of a shapefile
\* in a folder of the asset
entriesOf(idx) ==
    LET outBase == safeName(rowAssetId(idx))
        f == formatOf_pool
    IN  IF isGeojson(f) THEN { outBase \o <<".","g","e","o","j","s","o","n">> }
        ELSE IF isKml(f) THEN { outBase \o <<".","k","m","l">> }
        ELSE { outBase \o <<"/">> \o outBase \o ext : ext \in fate[idx].parts }

addFiles(z, names, idx) ==
    {e \in z : e.name \notin names} \cup {[name |-> nm, item |-> idx] : nm \in names}

\* the stages after next() took the items at positions t+1 .. t+k of toProcess
begunOf(st, t, k) ==
    [x \in DOMAIN st |->
        IF \E pos \in (t + 1)..(t + k) : toProcess[pos] = x THEN "fetching" ELSE st[x]]
countedOf(inv, t, k) ==
    [x \in DOMAIN inv |->
        IF \E pos \in (t + 1)..(t + k) : toProcess[pos] = x THEN inv[x] + 1 ELSE inv[x]]

\* the index runPool knows an item by: its place in toProcess
placeOf(idx) == CHOOSE pos \in 1..Len(toProcess) : toProcess[pos] = idx

\* what the handler sends when the promise of runPool is fulfilled
afterPool(z) ==
    IF z = {} THEN answer(404, "No features found for any row.", "json")
    ELSE answer(200, "", "zip")

\* the body is read, the rows are filtered and runPool starts the first workers
bulk_pool_read ==
    /\ variant = "bulk_pool"
    /\ phase = "received"
    /\ IF body.items = << >>
       THEN /\ response' = answer(400, "No items provided.", "json")
            /\ phase' = "responded"
            /\ UNCHANGED << stage, taken, active, invoked, promise >>
       ELSE IF toProcess = << >>
            THEN /\ response' = answer(400, "Every row needs a dataset.", "json")
                 /\ phase' = "responded"
                 /\ UNCHANGED << stage, taken, active, invoked, promise >>
            ELSE LET k == batch(0, 0, Len(toProcess), PoolLimit)
                     dropped == [x \in DOMAIN stage |->
                                    IF \E pos \in 1..Len(toProcess) : toProcess[pos] = x
                                    THEN "pending" ELSE "dropped"]
                 IN  /\ phase' = "pool"
                     /\ promise' = "pending"
                     /\ taken' = k
                     /\ active' = k
                     /\ stage' = begunOf(dropped, 0, k)
                     /\ invoked' = countedOf(invoked, 0, k)
                     /\ UNCHANGED response
    /\ UNCHANGED << variant, body, fate, ret, hits, zip, skipped >>
    /\ UNCHANGED << id, builder, sent, variantVars, geometryVars, registryVars >>
    /\ UNCHANGED lookupVars

\* the GET of a worker returns (timeout 20 s): an error or an unsupported
\* format rejects the promise of runPool, and the handler answers 500; no
\* feature is a row of skipped and the end of the worker; a feature goes to
\* mapshaper
bulk_pool_fetched ==
    /\ variant = "bulk_pool"
    /\ \E idx \in DOMAIN stage :
          /\ stage[idx] = "fetching"
          /\ LET f == formatOf_pool
                 n == Len(toProcess)
                 a == active - 1
                 last == taken >= n /\ a = 0
                 k == IF last THEN 0 ELSE batch(a, taken, n, PoolLimit)
             IN  CASE axiosGet(idx) = "error"
                         \/ (axiosGet(idx) = "found"
                               /\ ~(isGeojson(f) \/ isKml(f) \/ isShp(f))) ->
                        /\ stage' = [stage EXCEPT ![idx] = "failed"]
                        /\ promise' = settle(promise, "rejected")
                        /\ response' = IF promise = "pending"
                                       THEN answer(500, "worker failed", "json")
                                       ELSE response
                        /\ phase' = IF promise = "pending" THEN "responded" ELSE phase
                        /\ UNCHANGED << taken, active, ret, invoked, skipped >>
                    [] axiosGet(idx) = "found"
                         /\ (isGeojson(f) \/ isKml(f) \/ isShp(f)) ->
                        /\ stage' = [stage EXCEPT ![idx] = "encoding"]
                        /\ UNCHANGED << promise, response, phase, taken, active, ret,
                                        invoked, skipped >>
                    [] axiosGet(idx) = "none" ->
                        /\ skipped' = Append(skipped,
                              miss(idx, rowAssetId(idx), rowDataset(idx), "no feature found"))
                        /\ ret' = store(ret, placeOf(idx), "undefined")
                        /\ promise' = IF last THEN settle(promise, "resolved") ELSE promise
                        /\ response' = IF last /\ promise = "pending"
                                       THEN afterPool(zip) ELSE response
                        /\ phase' = IF last /\ promise = "pending" THEN "responded" ELSE phase
                        /\ taken' = taken + k
                        /\ active' = a + k
                        /\ stage' = begunOf([stage EXCEPT ![idx] = "missed"], taken, k)
                        /\ invoked' = countedOf(invoked, taken, k)
    /\ UNCHANGED << variant, body, fate, hits, zip >>
    /\ UNCHANGED << id, builder, sent, variantVars, geometryVars, registryVars >>
    /\ UNCHANGED lookupVars

\* mapshaper returns to a worker: an exception rejects the promise of
\* runPool; the files it made are added to the archive, none if it made none
bulk_pool_encoded ==
    /\ variant = "bulk_pool"
    /\ \E idx \in DOMAIN stage :
          /\ stage[idx] = "encoding"
          /\ LET n == Len(toProcess)
                 a == active - 1
                 last == taken >= n /\ a = 0
                 k == IF last THEN 0 ELSE batch(a, taken, n, PoolLimit)
                 z == IF fate[idx].encoder = "ok"
                      THEN addFiles(zip, entriesOf(idx), idx) ELSE zip
             IN  IF fate[idx].encoder = "throws"
                 THEN /\ stage' = [stage EXCEPT ![idx] = "failed"]
                      /\ promise' = settle(promise, "rejected")
                      /\ response' = IF promise = "pending"
                                     THEN answer(500, "mapshaper", "json")
                                     ELSE response
                      /\ phase' = IF promise = "pending" THEN "responded" ELSE phase
                      /\ UNCHANGED << taken, active, ret, invoked, zip >>
                 ELSE /\ zip' = z
                      /\ ret' = store(ret, placeOf(idx), "undefined")
                      /\ promise' = IF last THEN settle(promise, "resolved") ELSE promise
                      /\ response' = IF last /\ promise = "pending"
                                     THEN afterPool(z) ELSE response
                      /\ phase' = IF last /\ promise = "pending" THEN "responded" ELSE phase
                      /\ taken' = taken + k
                      /\ active' = a + k
                      /\ stage' = begunOf([stage EXCEPT ![idx] =
                                     IF fate[idx].encoder = "ok" THEN "done" ELSE "missed"],
                                          taken, k)
                      /\ invoked' = countedOf(invoked, taken, k)
    /\ UNCHANGED << variant, body, fate, hits, skipped >>
    /\ UNCHANGED << id, builder, sent, variantVars, geometryVars, registryVars >>
    /\ UNCHANGED lookupVars


----------------------------------------------------------------------------
(* Bulk, all features merged into one file *)

\* the body is read: no items is answered 400
bulk_merged_read ==
    /\ variant = "bulk_merged"
    /\ phase = "received"
    /\ IF body.items = << >>
       THEN /\ response' = answer(400, "No items provided.", "json")
            /\ phase' = "responded"
       ELSE /\ phase' = "rows"
            /\ UNCHANGED response
    /\ UNCHANGED << variant, body, fate, stage, taken, active, ret, invoked, promise,
                    hits, zip, skipped >>
    /\ UNCHANGED << id, builder, sent, variantVars, geometryVars, registryVars >>
    /\ UNCHANGED lookupVars

\* a turn of the loop begins: a row without assetId or dataset is skipped, for
\* the others fetchFeatures sends its GET
bulk_merged_get ==
    /\ variant = "bulk_merged"
    /\ phase = "rows"
    /\ taken < Len(body.items)
    /\ stage[taken + 1] = "pending"
    /\ LET idx == taken + 1
           missing == rowAssetId(idx) = << >> \/ rowDataset(idx) = << >>
       IN  IF missing
           THEN /\ skipped' = Append(skipped,
                      miss(idx, rowAssetId(idx), << >>, "missing assetId or dataset"))
                /\ stage' = [stage EXCEPT ![idx] = "dropped"]
                /\ taken' = idx
           ELSE /\ stage' = [stage EXCEPT ![idx] = "fetching"]
                /\ UNCHANGED << skipped, taken >>
    /\ UNCHANGED << variant, phase, body, fate, active, ret, invoked, promise, hits,
                    zip, response >>
    /\ UNCHANGED << id, builder, sent, variantVars, geometryVars, registryVars >>
    /\ UNCHANGED lookupVars

\* the GET ends, and the turn with it: features are tagged and collected, no
\* feature and an error are rows of skipped
bulk_merged_got ==
    /\ variant = "bulk_merged"
    /\ phase = "rows"
    /\ taken < Len(body.items)
    /\ stage[taken + 1] = "fetching"
    /\ axiosGet(taken + 1) # "pending"
    /\ LET idx == taken + 1
       IN  /\ taken' = idx
           /\ IF axiosGet(idx) = "found"
              THEN /\ hits' = Append(hits, idx)
                   /\ stage' = [stage EXCEPT ![idx] = "fetched"]
                   /\ UNCHANGED skipped
              ELSE /\ skipped' = Append(skipped,
                         miss(idx, rowAssetId(idx), rowDataset(idx),
                              IF axiosGet(idx) = "none"
                              THEN "no feature found" ELSE "Request failed"))
                   /\ stage' = [stage EXCEPT ![idx] = "missed"]
                   /\ UNCHANGED hits
    /\ UNCHANGED << variant, phase, body, fate, active, ret, invoked, promise, zip,
                    response >>
    /\ UNCHANGED << id, builder, sent, variantVars, geometryVars, registryVars >>
    /\ UNCHANGED lookupVars

\* after the loop: no feature is answered 404; the merged collection is
\* encoded as geojson, as a zipped shapefile, or else as KML, and sent
bulk_merged_send ==
    /\ variant = "bulk_merged"
    /\ phase = "rows"
    /\ taken = Len(body.items)
    /\ LET f == formatOf_pool
           thrown == \E k \in 1..Len(hits) : fate[hits[k]].encoder = "throws"
           nothing == \E k \in 1..Len(hits) : fate[hits[k]].encoder = "empty"
       IN  response' =
              IF hits = << >>
              THEN answer(404, "No features found for any row.", "json")
              ELSE IF thrown THEN answer(500, "mapshaper", "json")
              ELSE IF nothing
                   THEN answer(500, "Mapshaper did not return an output file.", "json")
              ELSE answer(200, "", IF isGeojson(f) THEN "geojson"
                                   ELSE IF isShp(f) THEN "zip" ELSE "kml")
    /\ phase' = "responded"
    /\ UNCHANGED << variant, body, fate, stage, taken, active, ret, invoked, promise,
                    hits, zip, skipped >>
    /\ UNCHANGED << id, builder, sent, variantVars, geometryVars, registryVars >>
    /\ UNCHANGED lookupVars

NextBulk ==
    \/ bulk_errorsCsv_read
    \/ bulk_errorsCsv_row
    \/ bulk_errorsCsv_decide
    \/ bulk_errorsCsv_encode
    \/ bulk_errorsCsv_send
    \/ bulk_pool_read
    \/ bulk_pool_fetched
    \/ bulk_pool_encoded
    \/ bulk_merged_read
    \/ bulk_merged_get
    \/ bulk_merged_got
    \/ bulk_merged_send

SpecBulk == InitBulk /\ [][NextBulk]_vars



----------------------------------------------------------------------------
(* Properties of the bulk endpoint *)

answeredZip == response.status = 200 /\ response.type = "zip"

\* the archive holds an output file of item idx
hasFile(idx) == \E e \in zip : e.item = idx

\* the archive holds a manifest, and the manifest a row for item idx
hasRow(idx) ==
    /\ \E e \in zip : e.name = errorsCsv
    /\ \E k \in 1..Len(skipped) : skipped[k].item = idx

\* C21: in every bulk request answered with a ZIP each input item is accounted
\* for exactly once: an output file for it is in the archive, or the manifest
\* of the archive has a row for it with its outcome; no item is dropped from
\* both.
C21_EveryItemAccountedFor ==
    answeredZip =>
        \A idx \in 1..Len(body.items) : hasFile(idx) # hasRow(idx)

\* the rows the handler takes up, and what becomes of them
kept(idx) == rowAssetId(idx) # << >> /\ rowDataset(idx) # << >>
succeeds(idx) == kept(idx) /\ outcomeOf(fate[idx]) = served
upstreamFails(idx) == kept(idx) /\ fate[idx].upstream \in {"error", "hangs"}
encoderFails(idx) ==
    kept(idx) /\ fate[idx].upstream = "found" /\ fate[idx].encoder = "throws"

\* a format all three handlers know
plainFormat ==
    body.format \in { <<"k","m","l">>, <<"g","e","o","j","s","o","n">>,
                      <<"s","h","a","p","e","f","i","l","e">> }

\* C22: an upstream failure (timeout or error response) while one item is
\* fetched does not abort the batch: the other items are resolved and
\* packaged, the failed item is reported, and the response is 200 whenever at
\* least one item succeeded.
C22_UpstreamFailureDoesNotAbort ==
    (phase = "responded" /\ plainFormat
        /\ (\E idx \in 1..Len(body.items) : upstreamFails(idx))
        /\ (\E idx \in 1..Len(body.items) : succeeds(idx)))
    => /\ response.status = 200
       /\ \A idx \in 1..Len(body.items) :
             upstreamFails(idx) => \E k \in 1..Len(skipped) : skipped[k].item = idx

\* C23: a failure of the encoder for one resolved item degrades that item to
\* an error entry of the manifest; the other items are encoded and the archive
\* is returned, the batch is not answered 500.
C23_EncoderFailureDegradesOneItem ==
    (phase = "responded" /\ plainFormat
        /\ (\E idx \in 1..Len(body.items) : encoderFails(idx))
        /\ (\E idx \in 1..Len(body.items) : succeeds(idx)))
    => /\ response.status = 200
       /\ \A idx \in 1..Len(body.items) :
             encoderFails(idx) => \E k \in 1..Len(skipped) : skipped[k].item = idx

\* C25: every request eventually receives a response, even if an upstream
\* service never answers: every upstream call is bounded by a timeout.
\* As a property of states: whenever the GET for an item is under way, the
\* handler has given it a timeout, so that it ends although upstream is silent.
C25_EveryUpstreamCallTimesOut ==
    \A idx \in DOMAIN stage :
        (variant \in BulkHandlers /\ stage[idx] = "fetching") =>
            /\ timeoutMs(variant) > 0
            /\ axiosGet(idx) # "pending"

\* C26: a request whose format is none of the supported ones is rejected with
\* a 4xx error and a message; it is never served in a default format.
C26_UnsupportedFormatIs4xx ==
    (phase = "responded" /\ body.format = <<"p","d","f">>) =>
        /\ response.status \in 400..499
        /\ response.error # ""

\* C29: once a worker of runPool has failed and the handler has sent its 500,
\* no further worker is started and nothing more is added to the archive or
\* to the skipped list.
C29_WorkStopsWithResponse ==
    [][(variant = "bulk_pool" /\ promise = "rejected" /\ response.status = 500) =>
          (taken' = taken /\ zip' = zip /\ skipped' = skipped)]_vars

\* C30: two distinct resolved items of one bulk request (different asset ID or
\* different dataset) are never written to the same entry name: the archive
\* holds an output file for each.
C30_DistinctItemsDistinctEntries ==
    answeredZip =>
        \A a, b \in 1..Len(body.items) :
            (a # b /\ stage[a] = "done" /\ stage[b] = "done"
                /\ << rowAssetId(a), rowDataset(a) >> # << rowAssetId(b), rowDataset(b) >>)
            => (hasFile(a) /\ hasFile(b))

\* C27: the FeatureCollection a single-item /convert lookup hands to the
\* encoder holds exactly one feature, the first of the winning probe, however
\* many features upstream returned for the predicate.  (A document the body
\* brought or named by URL comes from no lookup.)
C27_OneFeatureToEncoder ==
    (encoderCalls > 0 /\ fc # NoFC /\ fc.pass \notin {"client", "url"})
        => Cardinality(fc.features) = 1


=============================================================================
